---- MODULE Spec2Model ----
(***************************************************************************)
(* NJU3711: non-blocking driver of an 8-bit serial-in/parallel-out latch   *)
(* (class NJU3711), its 7-segment layer (class NJU3711_7Segment) and the   *)
(* 3-digit multiplexed display built on it (class NJU3711_7Segment_Multi). *)
(*                                                                         *)
(* An object is a record whose fields carry the names of the C++ members.  *)
(* Every member function is an operator from the object (and its           *)
(* arguments) to the object after the call; a function that returns a      *)
(* value has a second operator, <name>Result, for the value returned.      *)
(*                                                                         *)
(* Time.  The code reads micros() and only ever compares a difference      *)
(* micros() - stamp with a delay.  A time stamp member is therefore kept   *)
(* as the time elapsed since it was taken (field since<Stamp>), counted    *)
(* by Tick and saturating at a cap that is at least every delay the stamp  *)
(* is compared with: each comparison of the code has the value it has in   *)
(* the code.                                                               *)
(***************************************************************************)
EXTENDS Integers, Sequences, FiniteSets

\* ------------------------------------------------------------------------
\* Bounds of the model
\* ------------------------------------------------------------------------

\* Largest elapsed time that is told apart (microseconds).
AgeCap == 2
\* Application calls made in one behaviour of Spec.
MaxCalls == 2
\* Application calls made in one behaviour of SpecFull.
MaxFillCalls == 9
\* Step delays set through setStepDelay before begin(); 1 is the default.
StepDelays == {1, 2}

\* Multiplex delays and blanking times set before begin() in SpecMux.
MultiplexDelays == {3}
BlankingTimes == {2}
\* Application calls made in one behaviour of SpecMux.
MaxMuxCalls == 2
\* Slots the multiplexer selects in one behaviour of SpecMux.
MaxRefreshes == 3
\* Arguments of the slot configuration calls: a slot, a position that is no
\* slot, and a segment pattern.
Positions == {1, 3}
SegmentVals == {182}
\* Arguments of setDigit and setDigitChar: a digit value and a character ('3').
DigitVals == {3}
CharVals == {51}

\* Application calls made in one behaviour of SpecTwo.
MaxTwoCalls == 1
MaxPinCalls == 2
MaxBitCalls == 2
MaxPatternCalls == 2
MaxRefreshCalls == 1
MaxSetCalls == 3
MaxRingCalls == 8
AllPatternTypes == {1, 2, 3, 4}
PinVals == {182, 85}
\* Clear pins of the second object of SpecTwo: strapped, or a pin of its own.
ClearPins2 == {255, 5}

\* Application calls made in one behaviour of SpecLive.
MaxLiveCalls == 1

\* Slot configuration calls made in one behaviour of SpecSlots.
MaxSlotCalls == 1

\* Application calls made in one behaviour of SpecApp.
MaxAppCalls == 1
\* Arguments of the application's calls in SpecApp: a payload, a bit position
\* and one that is none.
AppVals == {85}
AppBits == {0, 8}

\* Application calls made in one behaviour of SpecIndex.
MaxIndexCalls == 2
\* Arguments of the calls in SpecIndex: the smallest bit position and the
\* smallest slot position that the range checks refuse, and the test pattern
\* started and its delay.
IndexBits == {8}
IndexPositions == {3}
PatternTypes == {1}
PatternDelays == {1}

\* The digits shown by slots 0, 1 and 2 in SpecCycle: three distinct patterns.
CycleDigits == {<<1, 2, 3>>}

\* Payloads of the application's write and shift calls.
DataVals == {182, 255}
\* The payload of the calls that fill the queue in SpecFull.
FillVals == {255}
\* Arguments of the bit-level calls: two valid positions and an invalid one.
BitVals == {0, 7, 8}

\* ------------------------------------------------------------------------
\* Program constants and enumerations
\* ------------------------------------------------------------------------

\* _operationQueue[8]
QueueCapacity == 8
\* _clearPin value of the constructor without a clear pin
Strapped == 255
\* _stepDelay set by the constructors
DefaultStepDelay == 1

\* The clear pin of the display of SpecMux: strapped, as the first
\* constructor of NJU3711_7Segment_Multi has it.
MuxClearPins == {Strapped}

HIGH == "HIGH"
LOW == "LOW"

NJU3711_IDLE == "NJU3711_IDLE"
NJU3711_SHIFTING == "NJU3711_SHIFTING"
NJU3711_LATCHING == "NJU3711_LATCHING"
NJU3711_CLEARING == "NJU3711_CLEARING"
NJU3711_TEST_PATTERN == "NJU3711_TEST_PATTERN"

NJU3711_OP_WRITE == "NJU3711_OP_WRITE"
NJU3711_OP_SHIFT_ONLY == "NJU3711_OP_SHIFT_ONLY"
NJU3711_OP_LATCH_ONLY == "NJU3711_OP_LATCH_ONLY"
NJU3711_OP_CLEAR == "NJU3711_OP_CLEAR"
NJU3711_OP_TEST_PATTERN == "NJU3711_OP_TEST_PATTERN"

\* ------------------------------------------------------------------------
\* uint8_t arithmetic
\* ------------------------------------------------------------------------

Pow2(i) == 2 ^ i

\* (x >> i) & 0x01
BitOf(x, i) == (x \div Pow2(i)) % 2

\* x | (1 << b), for b in 0..7
OrBit(x, b) == IF BitOf(x, b) = 1 THEN x ELSE x + Pow2(b)

\* x & ~(1 << b), for b in 0..7
AndNotBit(x, b) == IF BitOf(x, b) = 1 THEN x - Pow2(b) ELSE x

\* x ^ (1 << b), for b in 0..7
XorBit(x, b) == IF BitOf(x, b) = 1 THEN x - Pow2(b) ELSE x + Pow2(b)

\* (uint8_t) x
U8(x) == x % 256

\* elapsed time after one more microsecond
Older(age) == IF age < AgeCap THEN age + 1 ELSE AgeCap

PinLevel(b) == IF b THEN HIGH ELSE LOW

\* ------------------------------------------------------------------------
\* class NJU3711 (the Protocol Engine)
\* ------------------------------------------------------------------------

\* _testPatternDelay set by the constructors
DefaultTestPatternDelay == 500000

QueueIndex == 0 .. (QueueCapacity - 1)

\* The members no constructor sets (_currentOperation, _shiftData, _bitIndex,
\* the slots of _operationQueue) hold whatever the memory held.  The code
\* writes each of them before it reads it (startOperation, enqueueOperation),
\* so one filling stands for all.
Unset ==
    [ operation |-> NJU3711_OP_TEST_PATTERN,
      data      |-> 0,
      index     |-> 0,
      valid     |-> FALSE ]

\* NJU3711::NJU3711(dataPin, clockPin, strobePin, clearPin) and, with
\* clearPin = Strapped, NJU3711::NJU3711(dataPin, clockPin, strobePin).
\* The pins are not driven yet, and _lastUpdateTime is not set: their fields
\* get their first values in begin.
Construct(clearPin) ==
    [ _clearPin         |-> clearPin,
      _currentData      |-> 0,
      _state            |-> NJU3711_IDLE,
      _currentOperation |-> Unset.operation,
      _shiftData        |-> Unset.data,
      _bitIndex         |-> Unset.index,
      sinceLastUpdate   |-> 0,
      _stepDelay        |-> DefaultStepDelay,
      _clockState       |-> FALSE,
      _operationQueue   |-> [ i \in QueueIndex |->
                                [ operation |-> Unset.operation,
                                  data      |-> Unset.data,
                                  valid     |-> Unset.valid ] ],
      _queueHead        |-> 0,
      _queueTail        |-> 0,
      _queueSize        |-> 0,
      _testPatternStep  |-> 0,
      _testPatternType  |-> 0,
      _testPatternDelay |-> DefaultTestPatternDelay,
      pinData           |-> LOW,
      pinClock          |-> LOW,
      pinStrobe         |-> HIGH,
      pinClear          |-> HIGH ]

\* Mutant of isBusy: a queued operation does not count.
isBusy_StateOnly(e) == e._state # NJU3711_IDLE

isBusy(e) == (e._state # NJU3711_IDLE) \/ (e._queueSize > 0)

setStepDelay(e, delayMicros) == [e EXCEPT !._stepDelay = delayMicros]

\* Mutant: the step delay is not waited for.
isTimingMet_NoGate(e) == e.sinceLastUpdate >= 0

isTimingMet(e) == e.sinceLastUpdate >= e._stepDelay

updateClock(e, state) ==
    IF e._clockState # state
    THEN [e EXCEPT !.pinClock = PinLevel(state),
                   !._clockState = state,
                   !.sinceLastUpdate = 0]
    ELSE e

enqueueOperationResult(e) == ~(e._queueSize >= QueueCapacity)

\* Mutant: the capacity test is off by one, so a full queue is written to.
enqueueOperation_OffByOne(e, op, data) ==
    IF e._queueSize > QueueCapacity
    THEN e
    ELSE [e EXCEPT !._operationQueue[e._queueTail] =
                        [operation |-> op, data |-> data, valid |-> TRUE],
                   !._queueTail = (e._queueTail + 1) % QueueCapacity,
                   !._queueSize = e._queueSize + 1]

enqueueOperation(e, op, data) ==
    IF e._queueSize >= QueueCapacity
    THEN e
    ELSE [e EXCEPT !._operationQueue[e._queueTail] =
                        [operation |-> op, data |-> data, valid |-> TRUE],
                   !._queueTail = (e._queueTail + 1) % QueueCapacity,
                   !._queueSize = e._queueSize + 1]

dequeueOperationResult(e) == ~(e._queueSize = 0)

\* the operation and payload dequeueOperation hands back through op and data
dequeueOperationOut(e) == e._operationQueue[e._queueHead]

dequeueOperation(e) ==
    IF e._queueSize = 0
    THEN e
    ELSE [e EXCEPT !._operationQueue[e._queueHead].valid = FALSE,
                   !._queueHead = (e._queueHead + 1) % QueueCapacity,
                   !._queueSize = e._queueSize - 1]

\* Mutant: starting a write or shift leaves _currentData alone.
startOperation_KeepsCurrentData(e, op, data) ==
    LET e1 == [e EXCEPT !._currentOperation = op] IN
    CASE op \in {NJU3711_OP_WRITE, NJU3711_OP_SHIFT_ONLY} ->
            [e1 EXCEPT !._shiftData = data,
                       !._bitIndex = 7,
                       !._state = NJU3711_SHIFTING,
                       !.pinStrobe = HIGH]
      [] op = NJU3711_OP_LATCH_ONLY -> [e1 EXCEPT !._state = NJU3711_LATCHING]
      [] op = NJU3711_OP_CLEAR -> [e1 EXCEPT !._state = NJU3711_CLEARING]
      [] OTHER -> e1

\* Mutant of startOperation: a LatchOnly takes its (unused) payload as the
\* current value.
startOperation_LatchSetsData(e, op, data) ==
    LET e1 == [e EXCEPT !._currentOperation = op] IN
    CASE op \in {NJU3711_OP_WRITE, NJU3711_OP_SHIFT_ONLY} ->
            [e1 EXCEPT !._shiftData = data,
                       !._currentData = data,
                       !._bitIndex = 7,
                       !._state = NJU3711_SHIFTING,
                       !.pinStrobe = HIGH]
      [] op = NJU3711_OP_LATCH_ONLY -> [e1 EXCEPT !._currentData = data,
                                                  !._state = NJU3711_LATCHING]
      [] op = NJU3711_OP_CLEAR -> [e1 EXCEPT !._state = NJU3711_CLEARING]
      [] OTHER -> e1

startOperation(e, op, data) ==
    LET e1 == [e EXCEPT !._currentOperation = op] IN
    CASE op \in {NJU3711_OP_WRITE, NJU3711_OP_SHIFT_ONLY} ->
            [e1 EXCEPT !._shiftData = data,
                       !._currentData = data,
                       !._bitIndex = 7,
                       !._state = NJU3711_SHIFTING,
                       !.pinStrobe = HIGH]
      [] op = NJU3711_OP_LATCH_ONLY -> [e1 EXCEPT !._state = NJU3711_LATCHING]
      [] op = NJU3711_OP_CLEAR -> [e1 EXCEPT !._state = NJU3711_CLEARING]
      [] OTHER -> e1

stopTestPattern(e) ==
    IF e._state = NJU3711_TEST_PATTERN
    THEN [e EXCEPT !._state = NJU3711_IDLE]
    ELSE e

writeResult(e) == enqueueOperationResult(stopTestPattern(e))

write(e, data) == enqueueOperation(stopTestPattern(e), NJU3711_OP_WRITE, data)

shiftResult(e) == enqueueOperationResult(stopTestPattern(e))

shift(e, data) == enqueueOperation(stopTestPattern(e), NJU3711_OP_SHIFT_ONLY, data)

latchResult(e) == enqueueOperationResult(stopTestPattern(e))

latch(e) == enqueueOperation(stopTestPattern(e), NJU3711_OP_LATCH_ONLY, 0)

clearResult(e) == enqueueOperationResult(stopTestPattern(e))

clear(e) == enqueueOperation(stopTestPattern(e), NJU3711_OP_CLEAR, 0)

\* NJU3711::begin: the pins are made outputs and driven to their idle
\* levels, _lastUpdateTime = micros(), and a Clear is queued.
begin(e) ==
    clear([e EXCEPT !.pinData = LOW,
                    !.pinClock = LOW,
                    !.pinStrobe = HIGH,
                    !.pinClear = HIGH,
                    !.sinceLastUpdate = 0,
                    !._state = NJU3711_IDLE])

\* Mutant of setBit: the test pattern is stopped before the bit position is
\* checked.
setBit_StopsPatternFirst(e, bitPosition) ==
    IF bitPosition > 7
    THEN stopTestPattern(e)
    ELSE write(stopTestPattern(e), OrBit(e._currentData, bitPosition))

setBitResult(e, bitPosition) ==
    IF bitPosition > 7 THEN FALSE ELSE writeResult(stopTestPattern(e))

setBit(e, bitPosition) ==
    IF bitPosition > 7
    THEN e
    ELSE write(stopTestPattern(e), OrBit(e._currentData, bitPosition))

clearBitResult(e, bitPosition) ==
    IF bitPosition > 7 THEN FALSE ELSE writeResult(stopTestPattern(e))

clearBit(e, bitPosition) ==
    IF bitPosition > 7
    THEN e
    ELSE write(stopTestPattern(e), AndNotBit(e._currentData, bitPosition))

toggleBitResult(e, bitPosition) ==
    IF bitPosition > 7 THEN FALSE ELSE writeResult(stopTestPattern(e))

\* Mutant of toggleBit: the Write carries the mask alone, not the current
\* value with the bit inverted.
toggleBit_MaskOnly(e, bitPosition) ==
    IF bitPosition > 7
    THEN e
    ELSE write(stopTestPattern(e), Pow2(bitPosition))

toggleBit(e, bitPosition) ==
    IF bitPosition > 7
    THEN e
    ELSE write(stopTestPattern(e), XorBit(e._currentData, bitPosition))

writeBitResult(e, bitPosition, value) ==
    IF value THEN setBitResult(e, bitPosition) ELSE clearBitResult(e, bitPosition)

writeBit(e, bitPosition, value) ==
    IF value THEN setBit(e, bitPosition) ELSE clearBit(e, bitPosition)

getCurrentData(e) == e._currentData

getQueueSize(e) == e._queueSize

startTestPatternResult(e) == ~isBusy(e)

startTestPattern(e, patternType, patternDelay) ==
    IF isBusy(e)
    THEN e
    ELSE [e EXCEPT !._testPatternType = patternType,
                   !._testPatternDelay = patternDelay,
                   !._testPatternStep = 0,
                   !._state = NJU3711_TEST_PATTERN,
                   !.sinceLastUpdate = 0]

\* Mutant of clearQueue: the tail index is left where it was.
clearQueue_KeepsTail(e) ==
    [e EXCEPT !._queueHead = 0,
              !._queueSize = 0,
              !._operationQueue =
                  [ i \in QueueIndex |->
                      [e._operationQueue[i] EXCEPT !.valid = FALSE] ]]

clearQueue(e) ==
    [e EXCEPT !._queueHead = 0,
              !._queueTail = 0,
              !._queueSize = 0,
              !._operationQueue =
                  [ i \in QueueIndex |->
                      [e._operationQueue[i] EXCEPT !.valid = FALSE] ]]

\* processStateMachine, case NJU3711_IDLE
Idle(e) ==
    IF dequeueOperationResult(e)
    THEN startOperation(dequeueOperation(e),
                        dequeueOperationOut(e).operation,
                        dequeueOperationOut(e).data)
    ELSE e

\* Mutant of Shifting: the bits go out least significant first.
Shifting_LsbFirst(e) ==
    IF e._clockState = FALSE
    THEN updateClock([e EXCEPT !.pinData =
                          PinLevel(BitOf(e._shiftData, 7 - e._bitIndex) = 1)], TRUE)
    ELSE LET e1 == updateClock(e, FALSE)
             e2 == [e1 EXCEPT !._bitIndex = e._bitIndex - 1]
         IN  IF e2._bitIndex < 0
             THEN IF e2._currentOperation = NJU3711_OP_WRITE
                  THEN [e2 EXCEPT !._state = NJU3711_LATCHING]
                  ELSE [e2 EXCEPT !._state = NJU3711_IDLE]
             ELSE e2

\* Mutant of Shifting: a ShiftOnly is latched like a Write.
Shifting_AlwaysLatches(e) ==
    IF e._clockState = FALSE
    THEN updateClock([e EXCEPT !.pinData =
                          PinLevel(BitOf(e._shiftData, e._bitIndex) = 1)], TRUE)
    ELSE LET e1 == updateClock(e, FALSE)
             e2 == [e1 EXCEPT !._bitIndex = e._bitIndex - 1]
         IN  IF e2._bitIndex < 0
             THEN [e2 EXCEPT !._state = NJU3711_LATCHING]
             ELSE e2

\* processStateMachine, case NJU3711_SHIFTING
Shifting(e) ==
    IF e._clockState = FALSE
    THEN updateClock([e EXCEPT !.pinData =
                          PinLevel(BitOf(e._shiftData, e._bitIndex) = 1)], TRUE)
    ELSE LET e1 == updateClock(e, FALSE)
             e2 == [e1 EXCEPT !._bitIndex = e._bitIndex - 1]
         IN  IF e2._bitIndex < 0
             THEN IF e2._currentOperation = NJU3711_OP_WRITE
                  THEN [e2 EXCEPT !._state = NJU3711_LATCHING]
                  ELSE [e2 EXCEPT !._state = NJU3711_IDLE]
             ELSE e2

\* Mutant of Latching: the start of the strobe pulse takes no timestamp.
Latching_NoTimestamp(e, latchStep) ==
    IF ~latchStep
    THEN [ e |-> [e EXCEPT !.pinStrobe = LOW],
           latchStep |-> TRUE ]
    ELSE [ e |-> [e EXCEPT !.pinStrobe = HIGH, !._state = NJU3711_IDLE],
           latchStep |-> FALSE ]

\* Mutant of Latching: the end of the strobe pulse does not return the engine
\* to NJU3711_IDLE.
Latching_NeverReturns(e, latchStep) ==
    IF ~latchStep
    THEN [ e |-> [e EXCEPT !.pinStrobe = LOW, !.sinceLastUpdate = 0],
           latchStep |-> TRUE ]
    ELSE [ e |-> [e EXCEPT !.pinStrobe = HIGH],
           latchStep |-> FALSE ]

\* processStateMachine, case NJU3711_LATCHING.  latchStep is the function's
\* static local: one variable of the program, not a member of the object.
\* The result is the object and the static after the step.
Latching(e, latchStep) ==
    IF ~latchStep
    THEN [ e |-> [e EXCEPT !.pinStrobe = LOW, !.sinceLastUpdate = 0],
           latchStep |-> TRUE ]
    ELSE [ e |-> [e EXCEPT !.pinStrobe = HIGH, !._state = NJU3711_IDLE],
           latchStep |-> FALSE ]

\* Mutant: the end of the clear pulse does not reset _currentData.
Clearing_NoReset(e, clearStep) ==
    IF e._clearPin # Strapped
    THEN IF ~clearStep
         THEN [ e |-> [e EXCEPT !.pinClear = LOW, !.sinceLastUpdate = 0],
                clearStep |-> TRUE ]
         ELSE [ e |-> [e EXCEPT !.pinClear = HIGH, !._state = NJU3711_IDLE],
                clearStep |-> FALSE ]
    ELSE [ e |-> [enqueueOperation(e, NJU3711_OP_WRITE, 0)
                     EXCEPT !._state = NJU3711_IDLE],
           clearStep |-> clearStep ]

\* processStateMachine, case NJU3711_CLEARING, with the static local clearStep.
Clearing(e, clearStep) ==
    IF e._clearPin # Strapped
    THEN IF ~clearStep
         THEN [ e |-> [e EXCEPT !.pinClear = LOW, !.sinceLastUpdate = 0],
                clearStep |-> TRUE ]
         ELSE [ e |-> [e EXCEPT !.pinClear = HIGH,
                                !._currentData = 0,
                                !._state = NJU3711_IDLE],
                clearStep |-> FALSE ]
    ELSE [ e |-> LET e1 == enqueueOperation(e, NJU3711_OP_WRITE, 0)
                     e2 == IF enqueueOperationResult(e)
                           THEN [e1 EXCEPT !._currentData = 0]
                           ELSE e1
                 IN  [e2 EXCEPT !._state = NJU3711_IDLE],
           clearStep |-> clearStep ]

\* the byte the test pattern of the given type writes at the given step
TestPatternByte(type, step) ==
    CASE type = 1 -> IF step # 0 THEN 255 ELSE 0
      [] type = 2 -> IF step # 0 THEN 170 ELSE 85
      [] type = 3 -> Pow2(step % 8)
      [] OTHER -> step

\* processStateMachine, case NJU3711_TEST_PATTERN
TestPattern(e) ==
    IF e.sinceLastUpdate >= e._testPatternDelay
    THEN LET e1 ==
               CASE e._testPatternType \in {1, 2} ->
                      [write(e, TestPatternByte(e._testPatternType, e._testPatternStep))
                          EXCEPT !._testPatternStep =
                                     IF e._testPatternStep # 0 THEN 0 ELSE 1]
                 [] e._testPatternType \in {3, 4} ->
                      [write(e, TestPatternByte(e._testPatternType, e._testPatternStep))
                          EXCEPT !._testPatternStep = U8(e._testPatternStep + 1)]
                 [] OTHER -> e
         IN  [e1 EXCEPT !.sinceLastUpdate = 0]
    ELSE e

\* NJU3711::processStateMachine: the object and the two static locals after
\* the call.
processStateMachine(e, latchStep, clearStep) ==
    LET same == [e |-> e, latchStep |-> latchStep, clearStep |-> clearStep] IN
    IF ~isTimingMet(e)
    THEN same
    ELSE CASE e._state = NJU3711_IDLE ->
                [same EXCEPT !.e = Idle(e)]
           [] e._state = NJU3711_SHIFTING ->
                [same EXCEPT !.e = Shifting(e)]
           [] e._state = NJU3711_LATCHING ->
                [same EXCEPT !.e = Latching(e, latchStep).e,
                             !.latchStep = Latching(e, latchStep).latchStep]
           [] e._state = NJU3711_CLEARING ->
                [same EXCEPT !.e = Clearing(e, clearStep).e,
                             !.clearStep = Clearing(e, clearStep).clearStep]
           [] e._state = NJU3711_TEST_PATTERN ->
                [same EXCEPT !.e = TestPattern(e)]

\* NJU3711::update
update(e, latchStep, clearStep) == processStateMachine(e, latchStep, clearStep)

\* ------------------------------------------------------------------------
\* class NJU3711_7Segment.  A display object d has the parts d.nju (its
\* NJU3711 base), d.seg (the members of NJU3711_7Segment) and, for a
\* multiplexed display, d.mux (the members of NJU3711_7Segment_Multi).
\* ------------------------------------------------------------------------

SEG_A == 7
SEG_B == 5
SEG_C == 2
SEG_D == 1
SEG_E == 3
SEG_F == 6
SEG_G == 4
SEG_DP == 0

ACTIVE_LOW == "ACTIVE_LOW"
ACTIVE_HIGH == "ACTIVE_HIGH"

ANIM_ROTATE_CW == "ANIM_ROTATE_CW"
ANIM_ROTATE_CCW == "ANIM_ROTATE_CCW"
ANIM_BLINK == "ANIM_BLINK"
ANIM_FADE == "ANIM_FADE"
ANIM_CHASE == "ANIM_CHASE"
ANIM_LOADING == "ANIM_LOADING"

\* DIGIT_PATTERNS[digit] is DIGIT_PATTERNS[digit + 1] here
DIGIT_PATTERNS == <<238, 36, 186, 182, 116, 214, 222, 164, 254, 246>>

PATTERN_BLANK == 0

\* _brightness and _animationDelay set by the constructors
FullBrightness == 255
DefaultAnimationDelay == 100000

\* NJU3711_7Segment::NJU3711_7Segment, with and without clearPin.
\* _lastAnimationUpdate = 0 is the time of the reset: AgeCap ago or more.
Construct7Segment(clearPin, mode) ==
    [ nju |-> Construct(clearPin),
      seg |-> [ _displayMode             |-> mode,
                _decimalPointState       |-> FALSE,
                _brightness              |-> FullBrightness,
                _animationActive         |-> FALSE,
                _currentAnimation        |-> ANIM_ROTATE_CW,
                _animationDelay          |-> DefaultAnimationDelay,
                sinceLastAnimationUpdate |-> AgeCap,
                _animationStep           |-> 0,
                _animationValue          |-> 0 ] ]

\* ~segmentData is 255 - segmentData in uint8_t
applyDisplayMode(s, segmentData) ==
    IF s._displayMode = ACTIVE_LOW THEN 255 - segmentData ELSE segmentData

getDigitPattern(digit) ==
    IF digit > 9 THEN PATTERN_BLANK ELSE DIGIT_PATTERNS[digit + 1]

\* CHAR_PATTERNS[character - 'A'] is CHAR_PATTERNS[character - 65 + 1] here
CHAR_PATTERNS ==
    <<252, 94, 202, 62, 218, 216, 16, 16, 16, 16, 16, 16, 16,
      16, 16, 16, 16, 24, 16, 16, 16, 16, 16, 16, 16, 16>>

PATTERN_MINUS == 16
PATTERN_UNDERSCORE == 2

\* NJU3711_7Segment::getCharPattern; a char is its ASCII code
\* ('0' = 48, 'A' = 65, 'a' = 97, '-' = 45, '_' = 95).
getCharPattern(character) ==
    LET upper == IF character >= 97 /\ character <= 122
                 THEN character - 97 + 65
                 ELSE character
    IN  IF upper >= 48 /\ upper <= 57 THEN getDigitPattern(upper - 48)
        ELSE IF upper >= 65 /\ upper <= 90 THEN CHAR_PATTERNS[upper - 65 + 1]
        ELSE IF upper = 45 THEN PATTERN_MINUS
        ELSE IF upper = 95 THEN PATTERN_UNDERSCORE
        ELSE PATTERN_BLANK

stopAnimation(d) == [d EXCEPT !.seg._animationActive = FALSE]

displayDigitResult(d) == writeResult(d.nju)

displayDigit(d, digit, showDP) ==
    LET d1 == IF d.seg._animationActive THEN stopAnimation(d) ELSE d
        pattern == IF showDP THEN OrBit(getDigitPattern(digit), SEG_DP)
                   ELSE getDigitPattern(digit)
    IN  [d1 EXCEPT !.seg._decimalPointState = showDP,
                   !.nju = write(d1.nju, applyDisplayMode(d1.seg, pattern))]

displayBlankResult(d) == writeResult(d.nju)

displayBlank(d) ==
    LET d1 == IF d.seg._animationActive THEN stopAnimation(d) ELSE d
    IN  [d1 EXCEPT !.seg._decimalPointState = FALSE,
                   !.nju = write(d1.nju, applyDisplayMode(d1.seg, PATTERN_BLANK))]

startAnimationResult(d) == ~isBusy(d.nju)

startAnimation(d, type, animDelay) ==
    IF isBusy(d.nju) THEN d
    ELSE [d EXCEPT !.seg._currentAnimation = type,
                   !.seg._animationDelay = animDelay,
                   !.seg._animationStep = 0,
                   !.seg._animationActive = TRUE,
                   !.seg.sinceLastAnimationUpdate = 0]

\* the segments[] arrays of processAnimation
SegmentsCW == <<SEG_A, SEG_B, SEG_C, SEG_D, SEG_E, SEG_F>>
SegmentsCCW == <<SEG_A, SEG_F, SEG_E, SEG_D, SEG_C, SEG_B>>

\* the byte with exactly the bits of S set
BitsToByte(S) ==
    (IF 0 \in S THEN 1 ELSE 0) + (IF 1 \in S THEN 2 ELSE 0)
    + (IF 2 \in S THEN 4 ELSE 0) + (IF 3 \in S THEN 8 ELSE 0)
    + (IF 4 \in S THEN 16 ELSE 0) + (IF 5 \in S THEN 32 ELSE 0)
    + (IF 6 \in S THEN 64 ELSE 0) + (IF 7 \in S THEN 128 ELSE 0)

\* _animationStep after the full cycle of ANIM_LOADING
LoadingCycle == 12

\* NJU3711_7Segment::processAnimation
processAnimation(d) ==
    IF ~d.seg._animationActive THEN d
    ELSE IF d.seg.sinceLastAnimationUpdate < d.seg._animationDelay THEN d
    ELSE
      LET step == d.seg._animationStep
          shown(pattern) ==
              [d EXCEPT !.nju = write(d.nju, applyDisplayMode(d.seg, pattern)),
                        !.seg._animationStep = U8(step + 1)]
          blinked ==
              IF step % 2 = 0 THEN displayDigit(d, d.seg._animationValue, FALSE)
              ELSE displayBlank(d)
          loaded ==
              shown(BitsToByte({SegmentsCW[i + 1] :
                                    i \in {j \in 0 .. (step % 7) : j < 6}}))
          after ==
              CASE d.seg._currentAnimation = ANIM_ROTATE_CW ->
                     shown(Pow2(SegmentsCW[(step % 6) + 1]))
                [] d.seg._currentAnimation = ANIM_ROTATE_CCW ->
                     shown(Pow2(SegmentsCCW[(step % 6) + 1]))
                [] d.seg._currentAnimation = ANIM_BLINK ->
                     [blinked EXCEPT !.seg._animationStep = U8(step + 1)]
                [] d.seg._currentAnimation = ANIM_CHASE ->
                     shown(BitsToByte({SegmentsCW[((step + i) % 6) + 1] :
                                           i \in 0 .. 2}))
                [] d.seg._currentAnimation = ANIM_LOADING ->
                     IF loaded.seg._animationStep >= LoadingCycle
                     THEN [loaded EXCEPT !.seg._animationStep = 0]
                     ELSE loaded
                [] OTHER -> d
      IN  [after EXCEPT !.seg.sinceLastAnimationUpdate = 0]

\* NJU3711_7Segment::update: the object and the statics of
\* processStateMachine after the call.
NJU3711_7Segment_update(d, latchStep, clearStep) ==
    LET r == update(d.nju, latchStep, clearStep)
        d1 == [d EXCEPT !.nju = r.e]
    IN  [ d         |-> IF d1.seg._animationActive THEN processAnimation(d1) ELSE d1,
          latchStep |-> r.latchStep,
          clearStep |-> r.clearStep ]

\* ------------------------------------------------------------------------
\* class NJU3711_7Segment_Multi (the Multiplex Engine)
\* ------------------------------------------------------------------------

MPLEX_IDLE == "MPLEX_IDLE"
MPLEX_TURN_OFF_DIGITS == "MPLEX_TURN_OFF_DIGITS"
MPLEX_WAIT_BLANKING == "MPLEX_WAIT_BLANKING"
MPLEX_WRITE_DATA == "MPLEX_WRITE_DATA"
MPLEX_WAIT_DATA == "MPLEX_WAIT_DATA"
MPLEX_TURN_ON_DIGIT == "MPLEX_TURN_ON_DIGIT"
MPLEX_DISPLAY_DIGIT == "MPLEX_DISPLAY_DIGIT"

\* _digitPins[3], _digitData[3], _digitDP[3], _digitEnabled[3]
DigitCount == 3
\* _multiplexDelay and _blankingTime set by the constructors
DefaultMultiplexDelay == 2000
DefaultBlankingTime == 50
\* the delay of MPLEX_WAIT_DATA
SettleDelay == 10

Digits == 0 .. (DigitCount - 1)

\* the largest number of the set S
Largest(S) == CHOOSE c \in S : \A x \in S : x <= c

\* Largest elapsed time told apart for _lastMultiplexTime and for
\* _lastStateTime: the largest delay each is compared with.
MultiplexAgeCap == Largest(MultiplexDelays)
StateAgeCap == Largest({SettleDelay} \cup BlankingTimes)

\* Largest elapsed time told apart since the select lines were driven
\* inactive: the largest blanking time.
BlankingAgeCap == Largest(BlankingTimes)

OlderThan(age, cap) == IF age < cap THEN age + 1 ELSE cap

\* NJU3711_7Segment_Multi::NJU3711_7Segment_Multi, with and without
\* clearPin.  _lastMultiplexTime = 0 and _lastStateTime = 0 are the time of
\* the reset: long ago.  The select pins get their first level
\* in begin.
ConstructMulti(clearPin, mode) ==
    [ nju |-> Construct7Segment(clearPin, mode).nju,
      seg |-> Construct7Segment(clearPin, mode).seg,
      mux |-> [ _digitData         |-> [i \in Digits |-> 0],
                _digitDP           |-> [i \in Digits |-> FALSE],
                _digitEnabled      |-> [i \in Digits |-> TRUE],
                _mplexState        |-> MPLEX_IDLE,
                _currentDigit      |-> 0,
                _nextDigit         |-> 0,
                sinceLastMultiplex |-> MultiplexAgeCap,
                sinceLastState     |-> StateAgeCap,
                _multiplexDelay    |-> DefaultMultiplexDelay,
                _blankingTime      |-> DefaultBlankingTime,
                _multiplexEnabled  |-> TRUE,
                _displayValue      |-> 0,
                _leadingZeros      |-> FALSE,
                _blankOnZero       |-> FALSE,
                pinDigit           |-> [i \in Digits |-> HIGH] ] ]

\* NJU3711_7Segment_Multi::begin
NJU3711_7Segment_Multi_begin(d) ==
    [d EXCEPT !.nju = begin(d.nju),
              !.mux.pinDigit = [i \in Digits |-> HIGH],
              !.mux.sinceLastMultiplex = 0]

\* Mutant of deselectAllDigits: the last select line is left as it is.
deselectAllDigits_LeavesLast(m) ==
    [m EXCEPT !.pinDigit = [i \in Digits |->
                               IF i < DigitCount - 1 THEN HIGH ELSE m.pinDigit[i]]]

deselectAllDigits(m) == [m EXCEPT !.pinDigit = [i \in Digits |-> HIGH]]

\* Mutant of selectDigit: the select line of the last slot is not driven.
selectDigit_NeverLast(m, digit) ==
    IF digit < DigitCount - 1 THEN [m EXCEPT !.pinDigit[digit] = LOW] ELSE m

\* Mutant of selectDigit: the select line of a disabled slot is not driven.
selectDigit_OnlyEnabled(m, digit) ==
    IF digit < DigitCount /\ m._digitEnabled[digit]
    THEN [m EXCEPT !.pinDigit[digit] = LOW]
    ELSE m

selectDigit(m, digit) ==
    IF digit < DigitCount THEN [m EXCEPT !.pinDigit[digit] = LOW] ELSE m

\* Mutant of RefreshPattern: a disabled slot is written like an enabled one.
RefreshPattern_IgnoresEnable(d) ==
    LET k == d.mux._nextDigit
        pattern == IF d.mux._digitDP[k] THEN OrBit(d.mux._digitData[k], 0)
                   ELSE d.mux._digitData[k]
    IN  IF d.seg._displayMode = ACTIVE_LOW THEN 255 - pattern ELSE pattern

\* The pattern MPLEX_WRITE_DATA writes for the slot _nextDigit.
RefreshPattern(d) ==
    LET k == d.mux._nextDigit
        pattern == IF d.mux._digitEnabled[k]
                   THEN IF d.mux._digitDP[k] THEN OrBit(d.mux._digitData[k], 0)
                        ELSE d.mux._digitData[k]
                   ELSE 0
    IN  IF d.seg._displayMode = ACTIVE_LOW THEN 255 - pattern ELSE pattern

\* Mutant of multiplexDisplay: MPLEX_TURN_OFF_DIGITS leaves the select lines
\* as they are.
multiplexDisplay_KeepsSelected(d) ==
    LET m == d.mux IN
    CASE m._mplexState = MPLEX_IDLE ->
           IF m.sinceLastMultiplex >= m._multiplexDelay
           THEN [d EXCEPT !.mux._mplexState = MPLEX_TURN_OFF_DIGITS,
                          !.mux.sinceLastState = 0]
           ELSE d
      [] m._mplexState = MPLEX_TURN_OFF_DIGITS ->
           [d EXCEPT !.mux._mplexState = MPLEX_WAIT_BLANKING,
                     !.mux.sinceLastState = 0]
      [] m._mplexState = MPLEX_WAIT_BLANKING ->
           IF m.sinceLastState >= m._blankingTime
           THEN [d EXCEPT !.mux._nextDigit = (m._currentDigit + 1) % DigitCount,
                          !.mux._mplexState = MPLEX_WRITE_DATA]
           ELSE d
      [] m._mplexState = MPLEX_WRITE_DATA ->
           IF ~isBusy(d.nju)
           THEN [d EXCEPT !.nju = write(d.nju, RefreshPattern(d)),
                          !.mux._mplexState = MPLEX_WAIT_DATA,
                          !.mux.sinceLastState = 0]
           ELSE d
      [] m._mplexState = MPLEX_WAIT_DATA ->
           IF ~isBusy(d.nju) /\ m.sinceLastState >= SettleDelay
           THEN [d EXCEPT !.mux._mplexState = MPLEX_TURN_ON_DIGIT]
           ELSE d
      [] m._mplexState = MPLEX_TURN_ON_DIGIT ->
           [d EXCEPT !.mux = [selectDigit(m, m._nextDigit) EXCEPT
                                 !._currentDigit = m._nextDigit,
                                 !._mplexState = MPLEX_DISPLAY_DIGIT,
                                 !.sinceLastMultiplex = 0]]
      [] m._mplexState = MPLEX_DISPLAY_DIGIT ->
           [d EXCEPT !.mux._mplexState = MPLEX_IDLE]

\* Mutant of multiplexDisplay: MPLEX_IDLE does not wait for the multiplex
\* delay.
multiplexDisplay_NoWait(d) ==
    LET m == d.mux IN
    CASE m._mplexState = MPLEX_IDLE ->
           [d EXCEPT !.mux._mplexState = MPLEX_TURN_OFF_DIGITS,
                     !.mux.sinceLastState = 0]
      [] m._mplexState = MPLEX_TURN_OFF_DIGITS ->
           [d EXCEPT !.mux = [deselectAllDigits(m) EXCEPT
                                 !._mplexState = MPLEX_WAIT_BLANKING,
                                 !.sinceLastState = 0]]
      [] m._mplexState = MPLEX_WAIT_BLANKING ->
           IF m.sinceLastState >= m._blankingTime
           THEN [d EXCEPT !.mux._nextDigit = (m._currentDigit + 1) % DigitCount,
                          !.mux._mplexState = MPLEX_WRITE_DATA]
           ELSE d
      [] m._mplexState = MPLEX_WRITE_DATA ->
           IF ~isBusy(d.nju)
           THEN [d EXCEPT !.nju = write(d.nju, RefreshPattern(d)),
                          !.mux._mplexState = MPLEX_WAIT_DATA,
                          !.mux.sinceLastState = 0]
           ELSE d
      [] m._mplexState = MPLEX_WAIT_DATA ->
           IF ~isBusy(d.nju) /\ m.sinceLastState >= SettleDelay
           THEN [d EXCEPT !.mux._mplexState = MPLEX_TURN_ON_DIGIT]
           ELSE d
      [] m._mplexState = MPLEX_TURN_ON_DIGIT ->
           [d EXCEPT !.mux = [selectDigit(m, m._nextDigit) EXCEPT
                                 !._currentDigit = m._nextDigit,
                                 !._mplexState = MPLEX_DISPLAY_DIGIT,
                                 !.sinceLastMultiplex = 0]]
      [] m._mplexState = MPLEX_DISPLAY_DIGIT ->
           [d EXCEPT !.mux._mplexState = MPLEX_IDLE]

\* NJU3711_7Segment_Multi::multiplexDisplay
multiplexDisplay(d) ==
    LET m == d.mux IN
    CASE m._mplexState = MPLEX_IDLE ->
           IF m.sinceLastMultiplex >= m._multiplexDelay
           THEN [d EXCEPT !.mux._mplexState = MPLEX_TURN_OFF_DIGITS,
                          !.mux.sinceLastState = 0]
           ELSE d
      [] m._mplexState = MPLEX_TURN_OFF_DIGITS ->
           [d EXCEPT !.mux = [deselectAllDigits(m) EXCEPT
                                 !._mplexState = MPLEX_WAIT_BLANKING,
                                 !.sinceLastState = 0]]
      [] m._mplexState = MPLEX_WAIT_BLANKING ->
           IF m.sinceLastState >= m._blankingTime
           THEN [d EXCEPT !.mux._nextDigit = (m._currentDigit + 1) % DigitCount,
                          !.mux._mplexState = MPLEX_WRITE_DATA]
           ELSE d
      [] m._mplexState = MPLEX_WRITE_DATA ->
           IF ~isBusy(d.nju)
           THEN [d EXCEPT !.nju = write(d.nju, RefreshPattern(d)),
                          !.mux._mplexState = MPLEX_WAIT_DATA,
                          !.mux.sinceLastState = 0]
           ELSE d
      [] m._mplexState = MPLEX_WAIT_DATA ->
           IF ~isBusy(d.nju) /\ m.sinceLastState >= SettleDelay
           THEN [d EXCEPT !.mux._mplexState = MPLEX_TURN_ON_DIGIT]
           ELSE d
      [] m._mplexState = MPLEX_TURN_ON_DIGIT ->
           [d EXCEPT !.mux = [selectDigit(m, m._nextDigit) EXCEPT
                                 !._currentDigit = m._nextDigit,
                                 !._mplexState = MPLEX_DISPLAY_DIGIT,
                                 !.sinceLastMultiplex = 0]]
      [] m._mplexState = MPLEX_DISPLAY_DIGIT ->
           [d EXCEPT !.mux._mplexState = MPLEX_IDLE]

\* Mutant of NJU3711_7Segment_Multi::update: the multiplexer also runs while
\* the engine is busy.
NJU3711_7Segment_Multi_update_IgnoresBusy(d, latchStep, clearStep) ==
    LET r == NJU3711_7Segment_update(d, latchStep, clearStep)
    IN  [r EXCEPT !.d = IF r.d.mux._multiplexEnabled
                        THEN multiplexDisplay(r.d)
                        ELSE r.d]

\* NJU3711_7Segment_Multi::update: the object and the statics of
\* processStateMachine after the call.
NJU3711_7Segment_Multi_update(d, latchStep, clearStep) ==
    LET r == NJU3711_7Segment_update(d, latchStep, clearStep)
    IN  [r EXCEPT !.d = IF r.d.mux._multiplexEnabled /\ ~isBusy(r.d.nju)
                        THEN multiplexDisplay(r.d)
                        ELSE r.d]

setDigitResult(position) == position < DigitCount

setDigit(m, position, value, showDP) ==
    IF position >= DigitCount THEN m
    ELSE [m EXCEPT !._digitData[position] = getDigitPattern(value),
                   !._digitDP[position] = showDP,
                   !._digitEnabled[position] = TRUE]

setDigitCharResult(position) == position < DigitCount

setDigitChar(m, position, character, showDP) ==
    IF position >= DigitCount THEN m
    ELSE [m EXCEPT !._digitData[position] = getCharPattern(character),
                   !._digitDP[position] = showDP,
                   !._digitEnabled[position] = TRUE]

setDigitRawResult(position) == position < DigitCount

setDigitRaw(m, position, segments, showDP) ==
    IF position >= DigitCount THEN m
    ELSE [m EXCEPT !._digitData[position] = segments,
                   !._digitDP[position] = showDP,
                   !._digitEnabled[position] = TRUE]

enableDigitResult(position) == position < DigitCount

\* Mutant of enableDigit: disabling a slot also drives the select lines
\* inactive.
enableDigit_Deselects(m, position, enable) ==
    IF position >= DigitCount THEN m
    ELSE IF enable THEN [m EXCEPT !._digitEnabled[position] = enable]
    ELSE deselectAllDigits([m EXCEPT !._digitEnabled[position] = enable])

enableDigit(m, position, enable) ==
    IF position >= DigitCount THEN m
    ELSE [m EXCEPT !._digitEnabled[position] = enable]

disableDigit(m, position) == enableDigit(m, position, FALSE)

enableAllDigits(m) == [m EXCEPT !._digitEnabled = [i \in Digits |-> TRUE]]

disableAllDigits(m) == [m EXCEPT !._digitEnabled = [i \in Digits |-> FALSE]]

clearDisplay(m) == deselectAllDigits(disableAllDigits(m))

setMultiplexDelay(m, delayMicros) == [m EXCEPT !._multiplexDelay = delayMicros]

setBlankingTime(m, blankingMicros) == [m EXCEPT !._blankingTime = blankingMicros]

\* Mutant of enableMultiplex: disabling leaves the select lines as they are.
enableMultiplex_NoDeselect(m, enable) == [m EXCEPT !._multiplexEnabled = enable]

enableMultiplex(m, enable) ==
    IF ~enable THEN deselectAllDigits([m EXCEPT !._multiplexEnabled = enable])
    ELSE [m EXCEPT !._multiplexEnabled = enable]

disableMultiplex(m) == enableMultiplex(m, FALSE)

NJU3711_7Segment_Multi_setDecimalPointResult(position) == position < DigitCount

NJU3711_7Segment_Multi_setDecimalPoint(m, position, state) ==
    IF position >= DigitCount THEN m
    ELSE [m EXCEPT !._digitDP[position] = state]

\* ------------------------------------------------------------------------
\* State
\* ------------------------------------------------------------------------

VARIABLES
    nju,        \* the NJU3711 object (for a display, its NJU3711 base part)
    nju2,       \* a second NJU3711 object of the same program (SpecTwo)
    wire,       \* history: the serial lines as the device sees them (SpecPins):
                \*          time since the last step that changed a pin level,
                \*          data levels at the rising clock edges of the
                \*          operation under way
    latchStep,  \* static bool latchStep of processStateMachine
    clearStep,  \* static bool clearStep of processStateMachine
    seg,        \* the NJU3711_7Segment members of a display object
    mux,        \* the NJU3711_7Segment_Multi members of a display object
    ev,         \* history: the call that led to this state and what it returned
    pending,    \* history: operations accepted whose effect has not started
    script,     \* history: operations accepted since the engine was last at rest
                \*          (<<>>: not followed, after clearQueue)
    base,       \* history: getCurrentData() when script was started
    backlog,    \* history: submissions accepted minus operations pulled
    latched,    \* history: the byte the device latched last (0 after a clear pulse)
    opSteps,    \* history: timing-eligible update() steps taken for the
                \*          operation in execution, the one that pulled it included
    nCalls,     \* history: application calls made so far
    refreshes,  \* history: times the multiplexer has selected a slot
    refreshed,  \* history: the slot and payload of the multiplexer's last
                \*          write (<<>>: none yet)
    sinceDeselect, \* history: time elapsed since the last MPLEX_TURN_OFF_DIGITS
                \*          step
    asked       \* history: getCurrentData() before the first accepted setBit
                \*          and the bits of the accepted setBit calls
                \*          (SpecAccumulate)

vars == <<nju, nju2, wire, latchStep, clearStep, seg, mux,
          ev, pending, script, base, backlog, latched, opSteps, nCalls,
          refreshes, refreshed, sinceDeselect, asked>>

\* what belongs to the display layers, to the second object and to the
\* observer of the serial lines
display == <<seg, mux, refreshes, refreshed, sinceDeselect, nju2, wire, asked>>

\* the display members of an object that is a plain NJU3711
NoMembers == [absent |-> TRUE]

Entry(op, data) == [operation |-> op, data |-> data]

\* What an accepted operation does to the device: the byte shifted and the
\* pulse given.  With the clear pin strapped, a Clear is carried out as the
\* write of an all-zero byte.
EffectOf(entry, e) ==
    IF entry.operation = NJU3711_OP_CLEAR /\ e._clearPin = Strapped
    THEN Entry(NJU3711_OP_WRITE, 0)
    ELSE entry

\* The place in p of the oldest operation whose effect is fx: 0 if none.
RECURSIVE FirstMatch(_, _, _, _)
FirstMatch(p, fx, e, i) ==
    IF i > Len(p) THEN 0
    ELSE IF EffectOf(p[i], e) = fx THEN i
    ELSE FirstMatch(p, fx, e, i + 1)

RemoveAt(p, i) == SubSeq(p, 1, i - 1) \o SubSeq(p, i + 1, Len(p))

\* A call, its argument, what it returned (for update: whether the step delay
\* had elapsed), the place in pending of the operation whose effect the call
\* started (0: none started, -1: one that was not pending) and getQueueSize()
\* before the call.
Event(call, arg, ret, pos) ==
    [call |-> call, arg |-> arg, ret |-> ret, pos |-> pos, size |-> nju._queueSize]

SubmitCalls ==
    {"write", "shift", "latch", "clear", "setBit", "clearBit", "toggleBit", "writeBit"}

\* ------------------------------------------------------------------------
\* Actions on a plain NJU3711 object
\* ------------------------------------------------------------------------

\* The history variables as one record.
Hist ==
    [pending |-> pending, script |-> script, base |-> base,
     backlog |-> backlog, latched |-> latched, opSteps |-> opSteps]

Remember(h) ==
    /\ pending' = h.pending
    /\ script' = h.script
    /\ base' = h.base
    /\ backlog' = h.backlog
    /\ latched' = h.latched
    /\ opSteps' = h.opSteps

\* The history h after a submission to the engine e that returned ok and, if
\* ok, queued entry.
AfterSubmit(h, e, ok, entry) ==
    [h EXCEPT
       !.pending = IF ok THEN Append(h.pending, entry) ELSE h.pending,
       !.script = IF ~ok THEN h.script
                  ELSE IF ~isBusy(e) THEN <<entry>>
                  ELSE IF h.script = <<>> THEN <<>>
                  ELSE Append(h.script, entry),
       !.base = IF ok /\ ~isBusy(e) THEN e._currentData ELSE h.base,
       !.backlog = IF ok THEN h.backlog + 1 ELSE h.backlog]

\* The history h after code outside the engine (an animation, the
\* multiplexer) took the engine from e to e2: it submitted an operation if
\* the queue grew.
AfterCallee(h, e, e2) ==
    IF e2._queueSize = e._queueSize + 1
    THEN AfterSubmit(h, e, TRUE,
                     Entry(e2._operationQueue[e._queueTail].operation,
                           e2._operationQueue[e._queueTail].data))
    ELSE h

\* update() of the engine e pulls an operation from the queue.
Pulls(e) == isTimingMet(e) /\ e._state = NJU3711_IDLE /\ e._queueSize > 0

Pulled(e) ==
    Entry(dequeueOperationOut(e).operation, dequeueOperationOut(e).data)

\* update() of the engine e starts the effect of the operation it pulls (a
\* Clear with the clear pin strapped has no effect of its own).
Starts(e) == Pulls(e) /\ EffectOf(Pulled(e), e) = Pulled(e)

\* The place in the pending operations p of the operation whose effect
\* update() of the engine e starts: 0 if it starts none, -1 if the operation
\* is not in p.
StartPos(p, e) ==
    IF ~Starts(e) THEN 0
    ELSE IF FirstMatch(p, Pulled(e), e, 1) = 0 THEN -1
    ELSE FirstMatch(p, Pulled(e), e, 1)

\* The history h after NJU3711::update() took the engine from e to e2.
AfterStep(h, e, e2) ==
    LET eligible == isTimingMet(e)
        pos == StartPos(h.pending, e)
        pattern == eligible /\ e._state = NJU3711_TEST_PATTERN
                      /\ e2._queueSize = e._queueSize + 1
        written == Entry(NJU3711_OP_WRITE, e2._operationQueue[e._queueTail].data)
    IN  [h EXCEPT
           !.pending = IF pos > 0 THEN RemoveAt(h.pending, pos)
                       ELSE IF pattern THEN Append(h.pending, written)
                       ELSE h.pending,
           !.script = IF pattern /\ h.script # <<>> THEN Append(h.script, written)
                      ELSE h.script,
           !.backlog = IF Pulls(e) THEN h.backlog - 1
                       ELSE IF pattern THEN h.backlog + 1
                       ELSE h.backlog,
           !.latched = IF eligible /\ e._state = NJU3711_LATCHING
                             /\ e2._state = NJU3711_IDLE
                       THEN e._shiftData
                       ELSE IF eligible /\ e._state = NJU3711_CLEARING
                             /\ e._clearPin # Strapped /\ e2._state = NJU3711_IDLE
                       THEN 0
                       ELSE h.latched,
           !.opSteps = IF Pulls(e) THEN 1
                       ELSE IF eligible /\ e._state \in {NJU3711_SHIFTING,
                                   NJU3711_LATCHING, NJU3711_CLEARING}
                       THEN h.opSteps + 1
                       ELSE h.opSteps]

\* A submitting call that took the object to e2, returned ok and, if ok,
\* queued entry.
Submitted(call, arg, e2, ok, entry) ==
    /\ nju' = e2
    /\ ev' = Event(call, arg, ok, 0)
    /\ Remember(AfterSubmit(Hist, nju, ok, entry))
    /\ nCalls' = nCalls + 1
    /\ UNCHANGED <<latchStep, clearStep, display>>

Tick ==
    /\ nju' = [nju EXCEPT !.sinceLastUpdate = Older(nju.sinceLastUpdate)]
    /\ ev' = Event("tick", 0, TRUE, 0)
    /\ UNCHANGED <<latchStep, clearStep, display,
                   pending, script, base, backlog, latched, opSteps, nCalls>>

Update ==
    LET r == update(nju, latchStep, clearStep) IN
    /\ nju' = r.e
    /\ latchStep' = r.latchStep
    /\ clearStep' = r.clearStep
    /\ ev' = Event("update", 0, isTimingMet(nju), StartPos(pending, nju))
    /\ Remember(AfterStep(Hist, nju, r.e))
    /\ UNCHANGED <<display, nCalls>>

Write(data) ==
    Submitted("write", data, write(nju, data), writeResult(nju),
              Entry(NJU3711_OP_WRITE, data))

Shift(data) ==
    Submitted("shift", data, shift(nju, data), shiftResult(nju),
              Entry(NJU3711_OP_SHIFT_ONLY, data))

Latch ==
    Submitted("latch", 0, latch(nju), latchResult(nju),
              Entry(NJU3711_OP_LATCH_ONLY, 0))

Clear ==
    Submitted("clear", 0, clear(nju), clearResult(nju),
              Entry(NJU3711_OP_CLEAR, 0))

SetBit(b) ==
    Submitted("setBit", b, setBit(nju, b), setBitResult(nju, b),
              Entry(NJU3711_OP_WRITE, OrBit(nju._currentData, b % 8)))

ClearBit(b) ==
    Submitted("clearBit", b, clearBit(nju, b), clearBitResult(nju, b),
              Entry(NJU3711_OP_WRITE, AndNotBit(nju._currentData, b % 8)))

ToggleBit(b) ==
    Submitted("toggleBit", b, toggleBit(nju, b), toggleBitResult(nju, b),
              Entry(NJU3711_OP_WRITE, XorBit(nju._currentData, b % 8)))

WriteBit(b, value) ==
    Submitted("writeBit", b, writeBit(nju, b, value), writeBitResult(nju, b, value),
              Entry(NJU3711_OP_WRITE,
                    IF value THEN OrBit(nju._currentData, b % 8)
                    ELSE AndNotBit(nju._currentData, b % 8)))

ClearQueue ==
    /\ nju' = clearQueue(nju)
    /\ ev' = Event("clearQueue", 0, TRUE, 0)
    /\ pending' = IF nju._state = NJU3711_CLEARING /\ nju._clearPin = Strapped
                  THEN <<Entry(NJU3711_OP_CLEAR, 0)>>
                  ELSE <<>>
    /\ script' = <<>>
    /\ backlog' = 0
    /\ nCalls' = nCalls + 1
    /\ UNCHANGED <<latchStep, clearStep, display, base, latched, opSteps>>

SetStepDelay(d) ==
    /\ nju' = setStepDelay(nju, d)
    /\ ev' = Event("setStepDelay", d, TRUE, 0)
    /\ nCalls' = nCalls + 1
    /\ UNCHANGED <<latchStep, clearStep, display,
                   pending, script, base, backlog, latched, opSteps>>

StartTestPattern(type, delay) ==
    /\ nju' = startTestPattern(nju, type, delay)
    /\ ev' = Event("startTestPattern", type, startTestPatternResult(nju), 0)
    /\ nCalls' = nCalls + 1
    /\ UNCHANGED <<latchStep, clearStep, display,
                   pending, script, base, backlog, latched, opSteps>>

StopTestPattern ==
    /\ nju' = stopTestPattern(nju)
    /\ ev' = Event("stopTestPattern", 0, TRUE, 0)
    /\ nCalls' = nCalls + 1
    /\ UNCHANGED <<latchStep, clearStep, display,
                   pending, script, base, backlog, latched, opSteps>>

\* ------------------------------------------------------------------------
\* Spec: one NJU3711 object, constructed with or without a clear pin and
\* initialised by begin(), driven by an application that makes at most
\* MaxCalls calls, interleaved with update() and the passing of time.
\* ------------------------------------------------------------------------

InitHistory ==
    /\ ev = [call |-> "begin", arg |-> 0, ret |-> TRUE, pos |-> 0, size |-> 0]
    /\ pending = <<Entry(NJU3711_OP_CLEAR, 0)>>
    /\ script = <<Entry(NJU3711_OP_CLEAR, 0)>>
    /\ base = 0
    /\ backlog = 1
    /\ latched = 0
    /\ opSteps = 0
    /\ nCalls = 0
    /\ refreshes = 0
    /\ refreshed = <<>>
    /\ sinceDeselect = BlankingAgeCap
    /\ wire = [sinceChange |-> 0, clocked |-> <<>>]
    /\ asked = [before |-> 0, bits |-> <<>>]

Init ==
    /\ \E clearPin \in {Strapped, 4}, d \in StepDelays :
           nju = begin(setStepDelay(Construct(clearPin), d))
    /\ latchStep = FALSE
    /\ clearStep = FALSE
    /\ nju2 = NoMembers
    /\ seg = NoMembers
    /\ mux = NoMembers
    /\ InitHistory

Call ==
    /\ nCalls < MaxCalls
    /\ \/ \E v \in DataVals : Write(v)
       \/ \E v \in DataVals : Shift(v)
       \/ Latch
       \/ Clear
       \/ ClearQueue

Next ==
    \/ Tick
    \/ Update
    \/ Call

Spec == Init /\ [][Next]_vars

\* ------------------------------------------------------------------------
\* SpecFull: the same object under an application that fills the queue: up
\* to MaxFillCalls calls of write, behind the Clear that begin() queued.
\* ------------------------------------------------------------------------

CallFull ==
    /\ nCalls < MaxFillCalls
    /\ \E v \in FillVals : Write(v)

NextFull ==
    \/ Tick
    \/ Update
    \/ CallFull

SpecFull == Init /\ [][NextFull]_vars

\* ------------------------------------------------------------------------
\* SpecRing: the same object under an application that fills the queue and
\* empties it with clearQueue(): up to MaxRingCalls calls of write and
\* clearQueue, at any point.
\* ------------------------------------------------------------------------

CallRing ==
    /\ nCalls < MaxRingCalls
    /\ \/ \E v \in FillVals : Write(v)
       \/ ClearQueue

NextRing ==
    \/ Tick
    \/ Update
    \/ CallRing

SpecRing == Init /\ [][NextRing]_vars

\* ------------------------------------------------------------------------
\* SpecLive: the object of Spec under an application that makes at most
\* MaxLiveCalls submissions and keeps calling update() while time advances:
\* an update() that can change the object is eventually made, and time that
\* can still be told apart eventually passes.
\* ------------------------------------------------------------------------

CallLive ==
    /\ nCalls < MaxLiveCalls
    /\ \/ \E v \in DataVals : Write(v)
       \/ \E v \in DataVals : Shift(v)
       \/ Latch
       \/ Clear

NextLive ==
    \/ Tick
    \/ Update
    \/ CallLive

SpecLive == Init /\ [][NextLive]_vars /\ WF_vars(Tick) /\ WF_vars(Update)

\* ------------------------------------------------------------------------
\* SpecPins: the object of Spec with an observer on its lines.  wire follows
\* what a device on the pins sees: the time since the last update() that
\* changed the level of the clock, strobe or clear line, and the level of
\* the data line at each rising clock edge of the operation under way.
\* ------------------------------------------------------------------------

ControlLines(e) == <<e.pinClock, e.pinStrobe, e.pinClear>>

RisingEdge(e, e2) == e.pinClock = LOW /\ e2.pinClock = HIGH

\* wire after an update() that took the object from e to e2
Observed(w, e, e2) ==
    [sinceChange |-> IF ControlLines(e2) # ControlLines(e) THEN 0 ELSE w.sinceChange,
     clocked     |-> IF e._state = NJU3711_IDLE /\ e2._state # NJU3711_IDLE
                     THEN <<>>
                     ELSE IF RisingEdge(e, e2)
                          THEN Append(w.clocked, e2.pinData)
                          ELSE w.clocked]

TickPins ==
    /\ nju' = [nju EXCEPT !.sinceLastUpdate = Older(nju.sinceLastUpdate)]
    /\ wire' = [wire EXCEPT !.sinceChange = Older(wire.sinceChange)]
    /\ ev' = Event("tick", 0, TRUE, 0)
    /\ UNCHANGED <<latchStep, clearStep, seg, mux, refreshes, refreshed,
                   sinceDeselect, nju2, asked, pending, script, base, backlog, latched,
                   opSteps, nCalls>>

UpdatePins ==
    LET r == update(nju, latchStep, clearStep) IN
    /\ nju' = r.e
    /\ latchStep' = r.latchStep
    /\ clearStep' = r.clearStep
    /\ wire' = Observed(wire, nju, r.e)
    /\ ev' = Event("update", 0, isTimingMet(nju), StartPos(pending, nju))
    /\ Remember(AfterStep(Hist, nju, r.e))
    /\ UNCHANGED <<seg, mux, refreshes, refreshed, sinceDeselect, nju2, asked, nCalls>>

CallPins ==
    /\ nCalls < MaxPinCalls
    /\ \/ \E v \in PinVals : Write(v)
       \/ \E v \in PinVals : Shift(v)
       \/ Latch
       \/ Clear

NextPins ==
    \/ TickPins
    \/ UpdatePins
    \/ CallPins

SpecPins == Init /\ [][NextPins]_vars

\* ------------------------------------------------------------------------
\* SpecBits: the object of Spec under an application that makes at most
\* MaxBitCalls calls of write and of the bit operations, at any point.
\* ------------------------------------------------------------------------

CallBits ==
    /\ nCalls < MaxBitCalls
    /\ \/ \E v \in PinVals : Write(v)
       \/ \E b \in BitVals : SetBit(b)
       \/ \E b \in BitVals : ClearBit(b)
       \/ \E b \in BitVals : ToggleBit(b)

NextBits ==
    \/ Tick
    \/ Update
    \/ CallBits

SpecBits == Init /\ [][NextBits]_vars

\* ------------------------------------------------------------------------
\* SpecAccumulate: the object of Spec under an application that may write a
\* byte and then calls setBit, at most MaxSetCalls calls in all, at any
\* point.  asked follows the accepted setBit calls.
\* ------------------------------------------------------------------------

SetBitAsked(b) ==
    /\ nju' = setBit(nju, b)
    /\ ev' = Event("setBit", b, setBitResult(nju, b), 0)
    /\ Remember(AfterSubmit(Hist, nju, setBitResult(nju, b),
                            Entry(NJU3711_OP_WRITE,
                                  OrBit(nju._currentData, b % 8))))
    /\ nCalls' = nCalls + 1
    /\ asked' = IF ~setBitResult(nju, b) THEN asked
                ELSE [before |-> IF asked.bits = <<>> THEN getCurrentData(nju)
                                 ELSE asked.before,
                      bits |-> Append(asked.bits, b)]
    /\ UNCHANGED <<latchStep, clearStep, seg, mux, refreshes, refreshed,
                   sinceDeselect, nju2, wire>>

CallAccumulate ==
    /\ nCalls < MaxSetCalls
    /\ \/ nCalls = 0 /\ \E v \in PinVals : Write(v)
       \/ \E b \in BitVals : SetBitAsked(b)

NextAccumulate ==
    \/ Tick
    \/ Update
    \/ CallAccumulate

SpecAccumulate == Init /\ [][NextAccumulate]_vars

\* ------------------------------------------------------------------------
\* SpecPattern: the object of Spec under an application that starts and
\* stops test patterns of the four types and writes, at most MaxPatternCalls
\* calls in all.
\* ------------------------------------------------------------------------

CallPattern ==
    /\ nCalls < MaxPatternCalls
    /\ \/ \E type \in AllPatternTypes, delay \in PatternDelays :
              StartTestPattern(type, delay)
       \/ StopTestPattern
       \/ \E v \in PinVals : Write(v)

NextPattern ==
    \/ Tick
    \/ Update
    \/ CallPattern

SpecPattern == Init /\ [][NextPattern]_vars

\* ------------------------------------------------------------------------
\* SpecTwo: two NJU3711 objects of one program, each constructed with or
\* without a clear pin and initialised by begin(), whose update() calls are
\* interleaved in any order while time passes; the application makes at most
\* MaxTwoCalls calls of write on either.  The static locals latchStep and
\* clearStep of processStateMachine are the program's, not the object's.
\* The history variables follow the first object.
\* ------------------------------------------------------------------------

TickTwo ==
    /\ nju' = [nju EXCEPT !.sinceLastUpdate = Older(nju.sinceLastUpdate)]
    /\ nju2' = [nju2 EXCEPT !.sinceLastUpdate = Older(nju2.sinceLastUpdate)]
    /\ ev' = Event("tick", 0, TRUE, 0)
    /\ UNCHANGED <<wire, asked, latchStep, clearStep, seg, mux, refreshes, refreshed,
                   sinceDeselect, pending, script, base, backlog, latched,
                   opSteps, nCalls>>

\* update() of the second object
Update2 ==
    LET r == update(nju2, latchStep, clearStep) IN
    /\ nju2' = r.e
    /\ latchStep' = r.latchStep
    /\ clearStep' = r.clearStep
    /\ ev' = Event("update2", 0, isTimingMet(nju2), 0)
    /\ UNCHANGED <<nju, wire, asked, seg, mux, refreshes, refreshed, sinceDeselect,
                   pending, script, base, backlog, latched, opSteps, nCalls>>

\* write(data) of the second object
Write2(data) ==
    /\ nju2' = write(nju2, data)
    /\ ev' = Event("write2", data, writeResult(nju2), 0)
    /\ nCalls' = nCalls + 1
    /\ UNCHANGED <<nju, wire, asked, latchStep, clearStep, seg, mux, refreshes, refreshed,
                   sinceDeselect, pending, script, base, backlog, latched,
                   opSteps>>

InitTwo ==
    /\ \E clearPin \in {Strapped, 4}, clearPin2 \in ClearPins2 :
           /\ nju = begin(Construct(clearPin))
           /\ nju2 = begin(Construct(clearPin2))
    /\ latchStep = FALSE
    /\ clearStep = FALSE
    /\ seg = NoMembers
    /\ mux = NoMembers
    /\ InitHistory

CallTwo ==
    /\ nCalls < MaxTwoCalls
    /\ \/ \E v \in FillVals : Write(v)
       \/ \E v \in FillVals : Write2(v)

NextTwo ==
    \/ TickTwo
    \/ Update
    \/ Update2
    \/ CallTwo

SpecTwo == InitTwo /\ [][NextTwo]_vars

\* ------------------------------------------------------------------------
\* SpecMux: one NJU3711_7Segment_Multi object, constructed in either display
\* mode with its clear pin strapped, given its multiplex delay and blanking
\* time and initialised by begin(), driven by an application that makes at
\* most MaxMuxCalls configuration calls, interleaved with update() and the
\* passing of time, until the multiplexer has selected MaxRefreshes slots.
\* ------------------------------------------------------------------------

\* the display object
Multi == [nju |-> nju, seg |-> seg, mux |-> mux]

TickMulti ==
    /\ nju' = [nju EXCEPT !.sinceLastUpdate = Older(nju.sinceLastUpdate)]
    /\ seg' = [seg EXCEPT !.sinceLastAnimationUpdate =
                              Older(seg.sinceLastAnimationUpdate)]
    /\ mux' = [mux EXCEPT !.sinceLastMultiplex =
                              OlderThan(mux.sinceLastMultiplex, MultiplexAgeCap),
                          !.sinceLastState =
                              OlderThan(mux.sinceLastState, StateAgeCap)]
    /\ sinceDeselect' = OlderThan(sinceDeselect, BlankingAgeCap)
    /\ ev' = Event("tick", 0, TRUE, 0)
    /\ UNCHANGED <<nju2, wire, asked, latchStep, clearStep, pending, script, base, backlog,
                   latched, opSteps, nCalls, refreshes, refreshed>>

\* NJU3711_7Segment_Multi::update.  The history follows its three stages:
\* the step of the engine, the animation, the multiplexer.
UpdateMulti ==
    LET stepped == update(nju, latchStep, clearStep).e
        animated == NJU3711_7Segment_update(Multi, latchStep, clearStep).d.nju
        r == NJU3711_7Segment_Multi_update(Multi, latchStep, clearStep)
    IN  /\ refreshes < MaxRefreshes
        /\ refreshes' = IF mux._mplexState = MPLEX_TURN_ON_DIGIT
                            /\ r.d.mux._mplexState = MPLEX_DISPLAY_DIGIT
                         THEN refreshes + 1
                         ELSE refreshes
        /\ refreshed' = IF mux._mplexState = MPLEX_WRITE_DATA
                            /\ r.d.mux._mplexState = MPLEX_WAIT_DATA
                         THEN <<[slot |-> mux._nextDigit,
                                 pattern |-> r.d.nju._operationQueue[
                                                 animated._queueTail].data]>>
                         ELSE refreshed
        /\ sinceDeselect' = IF mux._mplexState = MPLEX_TURN_OFF_DIGITS
                                /\ r.d.mux._mplexState = MPLEX_WAIT_BLANKING
                             THEN 0
                             ELSE sinceDeselect
        /\ nju' = r.d.nju
        /\ seg' = r.d.seg
        /\ mux' = r.d.mux
        /\ latchStep' = r.latchStep
        /\ clearStep' = r.clearStep
        /\ ev' = Event("update", 0, isTimingMet(nju), StartPos(pending, nju))
        /\ Remember(AfterCallee(AfterCallee(AfterStep(Hist, nju, stepped),
                                            stepped, animated),
                                animated, r.d.nju))
        /\ UNCHANGED <<nju2, wire, asked, nCalls>>

\* A call that only changes the members of the multiplexer, to m2.
Configured(call, arg, ret, m2) ==
    /\ mux' = m2
    /\ ev' = Event(call, arg, ret, 0)
    /\ nCalls' = nCalls + 1
    /\ UNCHANGED <<nju, nju2, wire, asked, seg, latchStep, clearStep,
                   pending, script, base, backlog, latched, opSteps,
                   refreshes, refreshed, sinceDeselect>>

SetDigit(position, value, showDP) ==
    Configured("setDigit", position, setDigitResult(position),
               setDigit(mux, position, value, showDP))

SetDigitChar(position, character, showDP) ==
    Configured("setDigitChar", position, setDigitCharResult(position),
               setDigitChar(mux, position, character, showDP))

SetDigitRaw(position, segments, showDP) ==
    Configured("setDigitRaw", position, setDigitRawResult(position),
               setDigitRaw(mux, position, segments, showDP))

EnableDigit(position, enable) ==
    Configured("enableDigit", position, enableDigitResult(position),
               enableDigit(mux, position, enable))

SetDecimalPoint(position, state) ==
    Configured("setDecimalPoint", position,
               NJU3711_7Segment_Multi_setDecimalPointResult(position),
               NJU3711_7Segment_Multi_setDecimalPoint(mux, position, state))

EnableMultiplex(enable) ==
    Configured("enableMultiplex", 0, enable, enableMultiplex(mux, enable))

ClearDisplay ==
    Configured("clearDisplay", 0, TRUE, clearDisplay(mux))

InitMux ==
    /\ \E clearPin \in MuxClearPins, mode \in {ACTIVE_LOW, ACTIVE_HIGH},
          delayMicros \in MultiplexDelays, blankingMicros \in BlankingTimes :
           LET c == ConstructMulti(clearPin, mode)
               d == NJU3711_7Segment_Multi_begin(
                        [c EXCEPT !.mux = setBlankingTime(
                                              setMultiplexDelay(c.mux, delayMicros),
                                              blankingMicros)])
           IN  nju = d.nju /\ seg = d.seg /\ mux = d.mux
    /\ nju2 = NoMembers
    /\ latchStep = FALSE
    /\ clearStep = FALSE
    /\ InitHistory

CallMux ==
    /\ nCalls < MaxMuxCalls
    /\ \/ \E position \in Positions, segments \in SegmentVals, showDP \in BOOLEAN :
              SetDigitRaw(position, segments, showDP)
       \/ \E position \in Positions, enable \in BOOLEAN :
              EnableDigit(position, enable)
       \/ \E position \in Positions, state \in BOOLEAN :
              SetDecimalPoint(position, state)
       \/ \E enable \in BOOLEAN : EnableMultiplex(enable)
       \/ ClearDisplay

NextMux ==
    \/ TickMulti
    \/ UpdateMulti
    \/ CallMux

SpecMux == InitMux /\ [][NextMux]_vars

\* ------------------------------------------------------------------------
\* SpecSlots: the display of SpecMux under an application that makes at most
\* MaxSlotCalls calls of the five slot configuration operations, at any
\* point of the multiplex cycle.
\* ------------------------------------------------------------------------

CallSlots ==
    /\ nCalls < MaxSlotCalls
    /\ \/ \E position \in Positions, value \in DigitVals, showDP \in BOOLEAN :
              SetDigit(position, value, showDP)
       \/ \E position \in Positions, character \in CharVals, showDP \in BOOLEAN :
              SetDigitChar(position, character, showDP)
       \/ \E position \in Positions, segments \in SegmentVals, showDP \in BOOLEAN :
              SetDigitRaw(position, segments, showDP)
       \/ \E position \in Positions, enable \in BOOLEAN :
              EnableDigit(position, enable)
       \/ \E position \in Positions, state \in BOOLEAN :
              SetDecimalPoint(position, state)

NextSlots ==
    \/ TickMulti
    \/ UpdateMulti
    \/ CallSlots

SpecSlots == InitMux /\ [][NextSlots]_vars

\* ------------------------------------------------------------------------
\* SpecApp: the display of SpecMux under an application that makes at most
\* MaxAppCalls calls of the submitting operations of the engine (write,
\* clear, the bit operations) while the multiplexer runs.
\* ------------------------------------------------------------------------

CallApp ==
    /\ nCalls < MaxAppCalls
    /\ \/ \E v \in AppVals : Write(v)
       \/ Clear
       \/ \E b \in AppBits : SetBit(b)
       \/ \E b \in AppBits : ClearBit(b)
       \/ \E b \in AppBits : ToggleBit(b)
       \/ \E b \in AppBits, value \in BOOLEAN : WriteBit(b, value)

NextApp ==
    \/ TickMulti
    \/ UpdateMulti
    \/ CallApp

SpecApp == InitMux /\ [][NextApp]_vars

\* ------------------------------------------------------------------------
\* SpecRefresh: the display of SpecMux under an application that submits to
\* the engine (write, clear, toggleBit) at most MaxRefreshCalls times, at any
\* point of the multiplex cycle.
\* ------------------------------------------------------------------------

CallRefresh ==
    /\ nCalls < MaxRefreshCalls
    /\ \/ \E v \in AppVals : Write(v)
       \/ Clear
       \/ ToggleBit(0)

NextRefresh ==
    \/ TickMulti
    \/ UpdateMulti
    \/ CallRefresh

SpecRefresh == InitMux /\ [][NextRefresh]_vars

\* ------------------------------------------------------------------------
\* SpecIndex: the display of SpecMux under an application that makes at most
\* MaxIndexCalls calls of startTestPattern and of the operations that take
\* an index (the bit operations of the engine, the slot configuration of the
\* multiplexer) with an index out of range.  The same operations with an
\* index in range are part of SpecApp and SpecMux.
\* ------------------------------------------------------------------------

CallIndex ==
    /\ nCalls < MaxIndexCalls
    /\ \/ \E b \in IndexBits : SetBit(b)
       \/ \E b \in IndexBits : ClearBit(b)
       \/ \E b \in IndexBits : ToggleBit(b)
       \/ \E b \in IndexBits, value \in BOOLEAN : WriteBit(b, value)
       \/ \E type \in PatternTypes, delay \in PatternDelays :
              StartTestPattern(type, delay)
       \/ \E position \in IndexPositions, value \in DigitVals :
              SetDigit(position, value, TRUE)
       \/ \E position \in IndexPositions, character \in CharVals :
              SetDigitChar(position, character, TRUE)
       \/ \E position \in IndexPositions, segments \in SegmentVals :
              SetDigitRaw(position, segments, TRUE)
       \/ \E position \in IndexPositions : EnableDigit(position, FALSE)
       \/ \E position \in IndexPositions : SetDecimalPoint(position, TRUE)

NextIndex ==
    \/ TickMulti
    \/ UpdateMulti
    \/ CallIndex

SpecIndex == InitMux /\ [][NextIndex]_vars

\* ------------------------------------------------------------------------
\* SpecCycle: a fresh display whose three slots were configured with three
\* distinct patterns, all enabled, and that the application then leaves
\* alone: update() and the passing of time only, until the multiplexer has
\* selected MaxRefreshes slots.
\* ------------------------------------------------------------------------

InitCycle ==
    /\ \E clearPin \in MuxClearPins, mode \in {ACTIVE_LOW, ACTIVE_HIGH},
          delayMicros \in MultiplexDelays, blankingMicros \in BlankingTimes,
          shown \in CycleDigits :
           LET c == ConstructMulti(clearPin, mode)
               timed == setBlankingTime(setMultiplexDelay(c.mux, delayMicros),
                                        blankingMicros)
               configured == setDigit(setDigit(setDigit(timed, 0, shown[1], FALSE),
                                               1, shown[2], FALSE),
                                      2, shown[3], FALSE)
               d == NJU3711_7Segment_Multi_begin([c EXCEPT !.mux = configured])
           IN  nju = d.nju /\ seg = d.seg /\ mux = d.mux
    /\ nju2 = NoMembers
    /\ latchStep = FALSE
    /\ clearStep = FALSE
    /\ InitHistory

NextCycle ==
    \/ TickMulti
    \/ UpdateMulti

SpecCycle == InitCycle /\ [][NextCycle]_vars

\* ------------------------------------------------------------------------
\* SpecRound: the display of SpecCycle with any of its slots disabled by
\* enableDigit(position, false) before begin(), under update() alone.
\* ------------------------------------------------------------------------

InitRound ==
    /\ \E clearPin \in MuxClearPins, mode \in {ACTIVE_LOW, ACTIVE_HIGH},
          delayMicros \in MultiplexDelays, blankingMicros \in BlankingTimes,
          shown \in CycleDigits, disabled \in SUBSET Digits :
           LET c == ConstructMulti(clearPin, mode)
               timed == setBlankingTime(setMultiplexDelay(c.mux, delayMicros),
                                        blankingMicros)
               configured == setDigit(setDigit(setDigit(timed, 0, shown[1], FALSE),
                                               1, shown[2], FALSE),
                                      2, shown[3], FALSE)
               enabled == [configured EXCEPT !._digitEnabled =
                              [i \in Digits |->
                                  enableDigit(configured, i, i \notin disabled)
                                      ._digitEnabled[i]]]
               d == NJU3711_7Segment_Multi_begin([c EXCEPT !.mux = enabled])
           IN  nju = d.nju /\ seg = d.seg /\ mux = d.mux
    /\ nju2 = NoMembers
    /\ latchStep = FALSE
    /\ clearStep = FALSE
    /\ InitHistory

SpecRound == InitRound /\ [][NextCycle]_vars

\* ------------------------------------------------------------------------
\* SpecForever: the display of SpecCycle under an application that does
\* nothing but call update() for ever while time advances: an update() that
\* can change the display is eventually made, and time that can still be
\* told apart eventually passes.  refreshes stops counting at MaxRefreshes.
\* ------------------------------------------------------------------------

UpdateForever ==
    LET stepped == update(nju, latchStep, clearStep).e
        animated == NJU3711_7Segment_update(Multi, latchStep, clearStep).d.nju
        r == NJU3711_7Segment_Multi_update(Multi, latchStep, clearStep)
    IN  /\ refreshes' = IF mux._mplexState = MPLEX_TURN_ON_DIGIT
                            /\ r.d.mux._mplexState = MPLEX_DISPLAY_DIGIT
                            /\ refreshes < MaxRefreshes
                         THEN refreshes + 1
                         ELSE refreshes
        /\ refreshed' = IF mux._mplexState = MPLEX_WRITE_DATA
                            /\ r.d.mux._mplexState = MPLEX_WAIT_DATA
                         THEN <<[slot |-> mux._nextDigit,
                                 pattern |-> r.d.nju._operationQueue[
                                                 animated._queueTail].data]>>
                         ELSE refreshed
        /\ sinceDeselect' = IF mux._mplexState = MPLEX_TURN_OFF_DIGITS
                                /\ r.d.mux._mplexState = MPLEX_WAIT_BLANKING
                             THEN 0
                             ELSE sinceDeselect
        /\ nju' = r.d.nju
        /\ seg' = r.d.seg
        /\ mux' = r.d.mux
        /\ latchStep' = r.latchStep
        /\ clearStep' = r.clearStep
        /\ ev' = Event("update", 0, isTimingMet(nju), StartPos(pending, nju))
        /\ Remember(AfterCallee(AfterCallee(AfterStep(Hist, nju, stepped),
                                            stepped, animated),
                                animated, r.d.nju))
        /\ UNCHANGED <<nju2, wire, asked, nCalls>>

NextForever ==
    \/ TickMulti
    \/ UpdateForever

SpecForever ==
    InitCycle /\ [][NextForever]_vars /\ WF_vars(TickMulti) /\ WF_vars(UpdateForever)

\* ------------------------------------------------------------------------
\* Claims
\* ------------------------------------------------------------------------

\* The operations followed by script have run to completion: the effect of
\* each has started and the engine is back in NJU3711_IDLE.
Completed == script # <<>> /\ pending = <<>> /\ nju._state = NJU3711_IDLE

\* script is the single operation op, submitted to an engine at rest.
Alone(op) == Len(script) = 1 /\ script[1].operation = op

\* C1: operations take effect in the order of their submission: whenever an
\* update() starts the effect of an operation (its byte is shifted, its latch
\* or clear pulse given), that operation is the oldest accepted operation
\* whose effect had not started yet.
C1_FifoOrder == ev.pos \in {0, 1}

\* C2: a Write(v) submitted to an engine at rest and run to completion ends
\* with getCurrentData() = v and isBusy() = false.
C2_WriteRunToCompletion ==
    (Alone(NJU3711_OP_WRITE) /\ Completed)
        => (getCurrentData(nju) = script[1].data /\ ~isBusy(nju))

C2_Witness ==
    /\ script = <<Entry(NJU3711_OP_WRITE, 182)>>
    /\ base = 255
    /\ Completed
    /\ getCurrentData(nju) = 182

\* C3: a ShiftOnly(v) submitted to an engine at rest and run to completion
\* leaves getCurrentData() at the value it had before the submission.
C3_ShiftKeepsCurrentData ==
    (Alone(NJU3711_OP_SHIFT_ONLY) /\ Completed) => getCurrentData(nju) = base

\* C4: getCurrentData() is the last latched value, not the byte in flight:
\* while a Write is being shifted or latched (until the step that drives the
\* strobe line high again) getCurrentData() is the byte latched before.
C4_CurrentDataIsLatched ==
    (nju._currentOperation = NJU3711_OP_WRITE
        /\ nju._state \in {NJU3711_SHIFTING, NJU3711_LATCHING})
        => getCurrentData(nju) = latched

\* C5: a Clear submitted to an engine at rest and run to completion ends with
\* getCurrentData() = 0 and isBusy() = false, with a clear pin (pulse) and
\* with the clear pin strapped (write of 0x00), whatever the value before.
C5_ClearRunToCompletion ==
    (Alone(NJU3711_OP_CLEAR) /\ Completed)
        => (getCurrentData(nju) = 0 /\ ~isBusy(nju))

C5_Witness ==
    /\ Alone(NJU3711_OP_CLEAR)
    /\ base = 182
    /\ nju._clearPin = Strapped
    /\ Completed
    /\ getCurrentData(nju) = 0

\* the calls that submit one operation and fail only on a full queue
QueueCalls == {"write", "shift", "latch", "clear"}

\* C6: getQueueSize() is the number of submissions accepted minus the number
\* of operations pulled into execution (0 after clearQueue), it lies in
\* 0..8, and a submission is rejected iff getQueueSize() was 8 at the call.
C6_QueueAccounting ==
    /\ getQueueSize(nju) = backlog
    /\ getQueueSize(nju) \in 0 .. QueueCapacity
    /\ ev.call \in QueueCalls => (ev.ret = FALSE <=> ev.size = QueueCapacity)

\* C7: a submission rejected because the queue is full changes nothing of the
\* object: queue size, head, tail and slots, protocol state, current value.
C7_RejectedChangesNothing ==
    [][(ev'.call \in QueueCalls /\ ev'.ret = FALSE
            /\ getQueueSize(nju) = QueueCapacity)
        => (nju' = nju /\ latchStep' = latchStep /\ clearStep' = clearStep)]_vars

C7_Witness ==
    /\ ev.call = "write"
    /\ ev.ret = FALSE
    /\ ev.size = QueueCapacity
    /\ nCalls = 9
    /\ getQueueSize(nju) = QueueCapacity

\* C8: no accepted operation is dropped: once the engine is at rest (idle,
\* queue empty) the effect of every accepted operation has been started.
C8_NoSilentDrop == ~isBusy(nju) => pending = <<>>

\* C9: an update() called before the step delay has elapsed since the last
\* recorded update time changes nothing of the object or of the sub-phase
\* flags of the latch and clear pulses.
C9_EarlyUpdateIsNoOp ==
    [][(ev'.call = "update" /\ nju.sinceLastUpdate < nju._stepDelay)
        => (nju' = nju /\ latchStep' = latchStep /\ clearStep' = clearStep)]_vars

C9_Witness ==
    /\ ev.call = "update"
    /\ ev.ret = FALSE
    /\ nju.sinceLastUpdate < nju._stepDelay
    /\ nju._state = NJU3711_SHIFTING
    /\ nju._clockState = TRUE

\* The select lines that are active (LOW).
ActiveSelectLines == {i \in Digits : mux.pinDigit[i] = LOW}

\* C10: at every instant at most one of the three digit select lines is
\* active (LOW), whatever sequence of update(), slot configuration,
\* enableMultiplex(true/false) and clearDisplay() calls led there.
C10_AtMostOneSelectLine == Cardinality(ActiveSelectLines) <= 1

\* A second slot has been selected after the first: the multiplexer has gone
\* round through MPLEX_TURN_OFF_DIGITS and MPLEX_TURN_ON_DIGIT again.
C10_Witness ==
    /\ ActiveSelectLines = {2}
    /\ mux._currentDigit = 2
    /\ mux._mplexState = MPLEX_DISPLAY_DIGIT
    /\ nCalls > 0

\* update() drives a select line active: none was, one is after the call.
Selects == ActiveSelectLines = {} /\ ActiveSelectLines' # {}

\* C11: a select line goes active only after the slot's pattern has been
\* fully shifted and latched: at every step that drives the select line of
\* slot k active, the engine is idle with an empty queue and the byte most
\* recently latched is the pattern submitted for slot k in the WriteData
\* phase of that cycle, whatever the application submits (write, clear, bit
\* operations) in between.
C11_SelectAfterLatch ==
    [][Selects =>
          /\ ~isBusy(nju')
          /\ refreshed # <<>>
          /\ ActiveSelectLines' = {refreshed[1].slot}
          /\ latched' = refreshed[1].pattern]_vars

\* C12: on a fresh multiplexer with three distinct patterns, all slots
\* enabled and no application submissions, one full multiplex cycle selects
\* each slot exactly once, in the order 0, 1, 2: the k-th select line driven
\* active is that of slot k - 1.
C12_SelectionOrder ==
    (refreshes \in 1..DigitCount /\ ActiveSelectLines # {})
        => ActiveSelectLines = {refreshes - 1}

\* update() is the WriteData phase: it submits the Write of a slot.
WritesData ==
    mux._mplexState = MPLEX_WRITE_DATA /\ mux'._mplexState = MPLEX_WAIT_DATA

\* The segments slot k is configured to light: none if it is disabled, else
\* its stored pattern with the decimal point (bit 0) if set.
Lit(k) ==
    IF ~mux._digitEnabled[k] THEN {}
    ELSE {b \in 0..7 : BitOf(mux._digitData[k], b) = 1 \/ (b = 0 /\ mux._digitDP[k])}

\* The byte that lights the segments in lit on a display of the given mode:
\* a segment is lit by a 1 in ACTIVE_HIGH and by a 0 in ACTIVE_LOW.
Drives(lit, mode) ==
    BitsToByte(IF mode = ACTIVE_HIGH THEN lit ELSE (0..7) \ lit)

\* C13 (as stated): the Write of a disabled slot carries 0x00 in both display
\* modes.
C13_DisabledPayloadIsZero ==
    [][(WritesData /\ ~mux._digitEnabled[mux._nextDigit])
          => refreshed'[1].pattern = 0]_vars

\* C13 (amended): the Write the multiplexer submits for a disabled slot
\* carries the pattern that lights no segment in the display's mode (0x00 in
\* ACTIVE_HIGH, 0xFF in ACTIVE_LOW) whatever pattern and decimal point the
\* slot stores; the Write of an enabled slot carries its configured pattern
\* and decimal point in the display's mode; and the WriteData phase leaves
\* the stored pattern, decimal point and enable flag of every slot unchanged.
C13_DisabledSlotIsBlank ==
    [][WritesData =>
          /\ refreshed'[1].slot = mux._nextDigit
          /\ refreshed'[1].pattern = Drives(Lit(mux._nextDigit), seg._displayMode)
          /\ ~mux._digitEnabled[mux._nextDigit]
                => refreshed'[1].pattern
                     = (IF seg._displayMode = ACTIVE_LOW THEN 255 ELSE 0)
          /\ mux'._digitData = mux._digitData
          /\ mux'._digitDP = mux._digitDP
          /\ mux'._digitEnabled = mux._digitEnabled]_vars

\* The Write of a disabled slot that stores a pattern has been submitted on
\* an ACTIVE_LOW display.
C13_Witness ==
    /\ ev.call = "update"
    /\ mux._mplexState = MPLEX_WAIT_DATA
    /\ mux.sinceLastState = 0
    /\ refreshed # <<>>
    /\ ~mux._digitEnabled[refreshed[1].slot]
    /\ mux._digitData[refreshed[1].slot] # 0
    /\ seg._displayMode = ACTIVE_LOW
    /\ refreshed[1].pattern = 255

\* The phases between DeselectAll (MPLEX_TURN_OFF_DIGITS has run) and the
\* following SelectNext (MPLEX_TURN_ON_DIGIT has not run yet).
GapPhases ==
    {MPLEX_WAIT_BLANKING, MPLEX_WRITE_DATA, MPLEX_WAIT_DATA, MPLEX_TURN_ON_DIGIT}

\* C14: dark gap between digits.  Between DeselectAll and the following
\* SelectNext all three select lines are inactive, and a select line is only
\* active when SelectNext has driven it so at least the configured blanking
\* time after DeselectAll.
C14_DarkGap ==
    /\ mux._mplexState \in GapPhases => ActiveSelectLines = {}
    /\ ActiveSelectLines # {} => sinceDeselect >= mux._blankingTime

\* SelectNext has driven the line of a second slot active, the blanking time
\* after the line of the first was driven inactive.
C14_Witness ==
    /\ ev.call = "update"
    /\ mux._mplexState = MPLEX_DISPLAY_DIGIT
    /\ ActiveSelectLines # {}
    /\ refreshes = 2
    /\ sinceDeselect >= mux._blankingTime

\* The phase that follows phase p in the multiplex cycle.
PhaseAfter(p) ==
    CASE p = MPLEX_IDLE -> MPLEX_TURN_OFF_DIGITS
      [] p = MPLEX_TURN_OFF_DIGITS -> MPLEX_WAIT_BLANKING
      [] p = MPLEX_WAIT_BLANKING -> MPLEX_WRITE_DATA
      [] p = MPLEX_WRITE_DATA -> MPLEX_WAIT_DATA
      [] p = MPLEX_WAIT_DATA -> MPLEX_TURN_ON_DIGIT
      [] p = MPLEX_TURN_ON_DIGIT -> MPLEX_DISPLAY_DIGIT
      [] p = MPLEX_DISPLAY_DIGIT -> MPLEX_IDLE

\* C15: each update() of the multiplexer first steps the engine and then
\* changes the multiplex state by at most one phase, and only when
\* multiplexing is enabled and isBusy() is false after that step; if the
\* engine is busy or multiplexing is disabled, the multiplex state, the next
\* and current slot and the select lines are unchanged by the call.
C15_OnePhasePerUpdate ==
    [][ev'.call = "update" =>
          LET stepped == update(nju, latchStep, clearStep).e
              advanced == mux'._mplexState # mux._mplexState
          IN  /\ nju' = IF advanced /\ mux._mplexState = MPLEX_WRITE_DATA
                        THEN write(stepped, refreshed'[1].pattern)
                        ELSE stepped
              /\ advanced => /\ mux'._mplexState = PhaseAfter(mux._mplexState)
                              /\ mux._multiplexEnabled
                              /\ ~isBusy(stepped)
              /\ (~mux._multiplexEnabled \/ isBusy(stepped))
                    => /\ mux'._mplexState = mux._mplexState
                       /\ mux'._nextDigit = mux._nextDigit
                       /\ mux'._currentDigit = mux._currentDigit
                       /\ mux'.pinDigit = mux.pinDigit]_vars

\* update() has stepped a busy engine and left the multiplexer in MPLEX_IDLE
\* although the multiplex delay has elapsed.
C15_Witness ==
    /\ ev.call = "update"
    /\ ev.ret
    /\ isBusy(nju)
    /\ mux._multiplexEnabled
    /\ mux._mplexState = MPLEX_IDLE
    /\ mux.sinceLastMultiplex >= mux._multiplexDelay

\* C16: enableMultiplex(false) immediately drives all three select lines
\* inactive, in whatever multiplex phase it is called, and for as long as
\* multiplexing stays disabled no update() drives a select line active or
\* advances the multiplex state.
C16_DisabledIsDark ==
    [][/\ (ev'.call = "enableMultiplex" /\ ~ev'.ret)
             => (ActiveSelectLines' = {} /\ ~mux'._multiplexEnabled)
       /\ (ev'.call = "update" /\ ~mux._multiplexEnabled)
             => /\ ActiveSelectLines' = {}
                /\ mux'._mplexState = mux._mplexState
                /\ ~mux'._multiplexEnabled]_vars

\* enableMultiplex(false), the only call made, found the first slot selected
\* in MPLEX_DISPLAY_DIGIT; an update() of the idle engine made since has left
\* the lines inactive and the phase where it was.
C16_Witness ==
    /\ ev.call = "update"
    /\ ev.ret
    /\ ~isBusy(nju)
    /\ ~mux._multiplexEnabled
    /\ nCalls = 1
    /\ refreshes = 1
    /\ mux._mplexState = MPLEX_DISPLAY_DIGIT
    /\ ActiveSelectLines = {}

\* the slot configuration calls
SlotCalls == {"setDigit", "setDigitChar", "setDigitRaw", "enableDigit", "setDecimalPoint"}

\* C17: configuring a slot (setDigit, setDigitChar, setDigitRaw, enableDigit,
\* setDecimalPoint) only updates that slot's stored pattern, decimal point
\* and enable flag: it enqueues no operation, changes no select line, and
\* leaves the protocol engine (state, queue, pins), the latched value, the
\* multiplex phase and the other slots' data unchanged.  The new data first
\* reach the device in the slot's next WriteData phase: the call does not
\* change the payload of the Write the multiplexer submitted last, and every
\* WriteData phase writes the data the slot stores at that time.
C17_ConfigureIsLocal ==
    [][/\ ev'.call \in SlotCalls =>
            /\ nju' = nju
            /\ seg' = seg
            /\ latched' = latched
            /\ pending' = pending
            /\ refreshed' = refreshed
            /\ latchStep' = latchStep /\ clearStep' = clearStep
            /\ mux'.pinDigit = mux.pinDigit
            /\ mux' = [mux EXCEPT !._digitData = mux'._digitData,
                                  !._digitDP = mux'._digitDP,
                                  !._digitEnabled = mux'._digitEnabled]
            /\ \A i \in Digits :
                  i # ev'.arg => /\ mux'._digitData[i] = mux._digitData[i]
                                 /\ mux'._digitDP[i] = mux._digitDP[i]
                                 /\ mux'._digitEnabled[i] = mux._digitEnabled[i]
       /\ WritesData =>
            refreshed'[1] = [slot |-> mux._nextDigit,
                             pattern |-> Drives(Lit(mux._nextDigit),
                                                seg._displayMode)]]_vars

\* A slot was disabled while a select line was active: the line is still
\* active after the call.
C17_Witness ==
    /\ ev.call = "enableDigit"
    /\ ev.ret
    /\ ~mux._digitEnabled[ev.arg]
    /\ ActiveSelectLines # {}

\* the bit operations
BitCalls == {"setBit", "clearBit", "toggleBit", "writeBit"}

\* C18: a call with an invalid index is rejected with no state mutated: the
\* slot operations with position >= 3 and the bit operations (setBit,
\* clearBit, toggleBit, writeBit) with bitPosition > 7 return false and
\* leave the slot data, the queue, the protocol state, the test-pattern mode
\* and the current value unchanged.
C18_InvalidIndexRejected ==
    [][((ev'.call \in SlotCalls /\ ev'.arg >= DigitCount)
          \/ (ev'.call \in BitCalls /\ ev'.arg > 7))
         => /\ ~ev'.ret
            /\ nju' = nju
            /\ seg' = seg
            /\ mux' = mux
            /\ pending' = pending
            /\ latchStep' = latchStep /\ clearStep' = clearStep]_vars

\* setBit(8) was refused while a test pattern was running: it still runs.
C18_Witness ==
    /\ ev.call = "setBit"
    /\ ev.arg > 7
    /\ ~ev.ret
    /\ nju._state = NJU3711_TEST_PATTERN

\* the engine is at rest: state NJU3711_IDLE with an empty queue
AtRest == nju._state = NJU3711_IDLE /\ nju._queueSize = 0

\* C19: forward progress.  As long as update() keeps being called with time
\* advancing and no further submission arrives, every queued operation
\* eventually completes and the engine reaches NJU3711_IDLE with an empty
\* queue; and a Write takes at most 19 timing-eligible steps from the step
\* that dequeues it (that step, 16 shift steps, 2 latch steps): while it is
\* under way fewer than 19 have been taken.
C19_ForwardProgress ==
    /\ \A n \in 0..MaxLiveCalls :
          (isBusy(nju) /\ nCalls = n) ~> (AtRest \/ nCalls # n)
    /\ [](opSteps <= 19)
    /\ []((nju._state # NJU3711_IDLE /\ nju._currentOperation = NJU3711_OP_WRITE)
            => opSteps < 19)

\* A Write has completed with its 19th timing-eligible step and the engine
\* is at rest.
C19_Witness ==
    /\ AtRest
    /\ ev.call = "update"
    /\ nju._currentOperation = NJU3711_OP_WRITE
    /\ opSteps = 19
    /\ nCalls = 1

\* script is a Write followed by a LatchOnly submitted before the engine was
\* at rest again.
WriteThenLatch ==
    /\ Len(script) = 2
    /\ script[1].operation = NJU3711_OP_WRITE
    /\ script[2] = Entry(NJU3711_OP_LATCH_ONLY, 0)

\* A step of a LatchOnly: its submission, the update() that dequeues it, or
\* an update() in one of its two latch phases.
LatchOnlyStep ==
    \/ ev'.call = "latch"
    \/ /\ ev'.call = "update"
       /\ \/ Pulls(nju) /\ Pulled(nju).operation = NJU3711_OP_LATCH_ONLY
          \/ /\ nju._state = NJU3711_LATCHING
             /\ nju._currentOperation = NJU3711_OP_LATCH_ONLY

\* C20: a LatchOnly submitted after a Write(v) is redundant: after both have
\* fully drained getCurrentData() = v and isBusy() is false; and in general
\* no step of a LatchOnly changes getCurrentData().
C20_LatchOnlyRedundant ==
    [][/\ ((WriteThenLatch /\ Completed)
              => (getCurrentData(nju) = script[1].data /\ ~isBusy(nju)))'
       /\ LatchOnlyStep => getCurrentData(nju') = getCurrentData(nju)]_vars

\* Write(0xB6) and the LatchOnly submitted behind it have drained; the
\* LatchOnly ran last.
C20_Witness ==
    /\ script = <<Entry(NJU3711_OP_WRITE, 182), Entry(NJU3711_OP_LATCH_ONLY, 0)>>
    /\ Completed
    /\ nju._currentOperation = NJU3711_OP_LATCH_ONLY
    /\ getCurrentData(nju) = 182

\* The step from e to e2 ends a latch of the object: it needs the strobe
\* line low before and drives it high.
LatchPulsed(e, e2) ==
    (e._state = NJU3711_LATCHING /\ e2._state = NJU3711_IDLE)
        => (e.pinStrobe = LOW /\ e2.pinStrobe = HIGH)

\* The same for a hardware clear and the clear line.
ClearPulsed(e, e2) ==
    (e._state = NJU3711_CLEARING /\ e._clearPin # Strapped
        /\ e2._state = NJU3711_IDLE)
        => (e.pinClear = LOW /\ e2.pinClear = HIGH)

\* C21: two engine instances never share hidden state: stepped in any
\* interleaving, every latch (hardware clear) of each instance drives its own
\* strobe (clear) line low on one step and high on a later step, so an
\* instance only leaves NJU3711_LATCHING (NJU3711_CLEARING) by the step that
\* drives the line high again after a step of its own drove it low.
C21_NoSharedPhase ==
    [][/\ LatchPulsed(nju, nju') /\ ClearPulsed(nju, nju')
       /\ LatchPulsed(nju2, nju2') /\ ClearPulsed(nju2, nju2')]_vars

\* What the device and the state machine see of an object: protocol state,
\* operation under way, shift byte, bit index, clock sub-phase, pin levels.
ProtocolView(e) ==
    <<e._state, e._currentOperation, e._shiftData, e._bitIndex, e._clockState,
      e.pinData, e.pinClock, e.pinStrobe, e.pinClear>>

InFlight(e) ==
    e._state \in {NJU3711_SHIFTING, NJU3711_LATCHING, NJU3711_CLEARING}

\* The object as update() finds it once the step delay has elapsed.
Due(e) == [e EXCEPT !.sinceLastUpdate = AgeCap]

\* The rest of the operation under way: what the device, the state machine
\* and getCurrentData() show after each further eligible update(), and how
\* many operations the step queued (the Write(0x00) of a Clear without a
\* clear pin), up to the step that leaves Shifting, Latching and Clearing
\* (at most n steps).
RECURSIVE RestOfOperation(_, _, _, _)
RestOfOperation(e, ls, cs, n) ==
    IF n = 0 \/ ~InFlight(e)
    THEN <<>>
    ELSE LET r == update(Due(e), ls, cs) IN
         <<<<ProtocolView(r.e), r.e._currentData, r.latchStep, r.clearStep,
             r.e._queueSize - e._queueSize>>>>
             \o RestOfOperation(r.e, r.latchStep, r.clearStep, n - 1)

\* The longest operation is a Write: 16 shift steps and 2 latch steps.
OperationSteps == 18

InFlightSubmission ==
    /\ ev'.call \in SubmitCalls
    /\ InFlight(nju)

\* C22: a submission (write, shift, latch, clear, a bit operation) made
\* while an operation is in flight (Shifting, Latching, Clearing) leaves the
\* protocol state, the operation kind, the shift byte, the bit index, the
\* sub-phase and the line levels unchanged, and the operation in flight then
\* completes step for step as it would have without the submission.
C22_NoPreemption ==
    [][InFlightSubmission =>
         /\ ProtocolView(nju') = ProtocolView(nju)
         /\ latchStep' = latchStep /\ clearStep' = clearStep
         /\ nju'.sinceLastUpdate = nju.sinceLastUpdate
         /\ RestOfOperation(nju', latchStep', clearStep', OperationSteps)
              = RestOfOperation(nju, latchStep, clearStep, OperationSteps)]_vars

\* The part of C22 that is about the call itself and about everything but a
\* Clear on an object without a clear pin.
C22_FrameOnly ==
    [][InFlightSubmission =>
         /\ ProtocolView(nju') = ProtocolView(nju)
         /\ latchStep' = latchStep /\ clearStep' = clearStep
         /\ (nju._state = NJU3711_CLEARING /\ nju._clearPin = Strapped)
            \/ RestOfOperation(nju', latchStep', clearStep', OperationSteps)
                 = RestOfOperation(nju, latchStep, clearStep, OperationSteps)]_vars

\* C23: the multiplexer visits the slots in round-robin order whatever slots
\* are enabled: every step that drives a select line active, after the
\* first, selects slot (previously selected slot + 1) mod 3, also when that
\* slot is disabled.  _currentDigit is the slot last selected: it changes in
\* the selecting steps only, to the slot selected.
C23_RoundRobin ==
    [][/\ Selects => ActiveSelectLines' = {mux'._currentDigit}
       /\ (Selects /\ refreshes >= 1)
             => ActiveSelectLines' = {(mux._currentDigit + 1) % DigitCount}
       /\ (mux._mplexState = MPLEX_TURN_ON_DIGIT
              /\ mux'._mplexState = MPLEX_DISPLAY_DIGIT) => Selects
       /\ ~Selects => mux'._currentDigit = mux._currentDigit]_vars

\* A disabled slot is selected, as the successor of the slot before it.
C23_Witness ==
    /\ refreshes = 2
    /\ ActiveSelectLines = {2}
    /\ ~mux._digitEnabled[2]
    /\ mux._digitEnabled[1]

\* update() changes the level of the clock, strobe or clear line.
ChangesLine == ev'.call = "update" /\ ControlLines(nju') # ControlLines(nju)

\* C24: every change of a pin level (clock, strobe, clear, either direction)
\* records a timestamp: no update() changes a pin level sooner than the step
\* delay after the previous update() that changed one, the first step of an
\* operation that follows a completed latch or clear pulse included.
C24_PinChangesSpaced ==
    [][ChangesLine => wire.sinceChange >= nju._stepDelay]_vars

\* The levels of the data line for the bits of v, most significant first.
MsbFirst(v) == [k \in 1..8 |-> PinLevel(BitOf(v, 8 - k) = 1)]

ShiftsByte(e) == e._currentOperation \in {NJU3711_OP_WRITE, NJU3711_OP_SHIFT_ONLY}

\* update() pulls a Write or ShiftOnly into execution.
PullsByte ==
    /\ ev'.call = "update"
    /\ Pulls(nju)
    /\ Pulled(nju).operation \in {NJU3711_OP_WRITE, NJU3711_OP_SHIFT_ONLY}

\* C25: a Write(v) or ShiftOnly(v) is shifted in exactly 8 rising clock
\* edges, the data line at the k-th rising edge (k = 0..7) carrying bit 7-k
\* of v (most significant bit first); the data line changes only while the
\* clock is low; each bit takes two steps, one that raises the clock and one
\* that lowers it and decrements the bit index, which runs from 7 to -1.
C25_ShiftsMsbFirst ==
    /\ [](nju._state = NJU3711_SHIFTING =>
            /\ ShiftsByte(nju)
            /\ nju._bitIndex \in 0..7
            /\ Len(wire.clocked)
                   = (7 - nju._bitIndex) + (IF nju._clockState THEN 1 ELSE 0)
            /\ opSteps = 1 + Len(wire.clocked) + (7 - nju._bitIndex)
            /\ \A k \in 1..Len(wire.clocked) :
                   wire.clocked[k] = MsbFirst(nju._shiftData)[k])
    /\ []((ShiftsByte(nju) /\ nju._state # NJU3711_SHIFTING) =>
            /\ nju._bitIndex = -1
            /\ nju.pinClock = LOW
            /\ wire.clocked = MsbFirst(nju._shiftData))
    /\ [](~ShiftsByte(nju) => wire.clocked = <<>>)
    /\ [][/\ PullsByte =>
               /\ nju'._shiftData = Pulled(nju).data
               /\ nju'._bitIndex = 7
               /\ nju'._state = NJU3711_SHIFTING
          /\ nju'.pinData # nju.pinData => nju.pinClock = LOW
          /\ (ev'.call = "update" /\ ev'.ret /\ nju._state = NJU3711_SHIFTING) =>
               IF nju.pinClock = LOW
               THEN nju'.pinClock = HIGH /\ nju'._bitIndex = nju._bitIndex
               ELSE nju'.pinClock = LOW /\ nju'._bitIndex = nju._bitIndex - 1]_vars

\* Write(0xB6) has been shifted: 8 edges, 1 0 1 1 0 1 1 0.
C25_Witness ==
    /\ nju._state = NJU3711_LATCHING
    /\ nju._currentOperation = NJU3711_OP_WRITE
    /\ nju._shiftData = 182
    /\ wire.clocked = <<HIGH, LOW, HIGH, HIGH, LOW, HIGH, HIGH, LOW>>

\* C26: when the bit index passes below 0 a Write moves to Latching and a
\* ShiftOnly returns directly to Idle.  During and after a ShiftOnly the
\* strobe line is never low; a Write has the strobe line high while it
\* shifts (steps 1..16 after the dequeuing step) and on entering Latching,
\* low after its 18th step only, and is idle with the line high again after
\* its 19th: exactly one low-then-high pulse before Idle.
C26_LatchAfterWrite ==
    /\ nju._currentOperation = NJU3711_OP_SHIFT_ONLY =>
          /\ nju.pinStrobe = HIGH
          /\ opSteps \in 1..17
          /\ nju._state = (IF opSteps < 17 THEN NJU3711_SHIFTING ELSE NJU3711_IDLE)
          /\ (opSteps = 17) = (nju._bitIndex < 0)
    /\ nju._currentOperation = NJU3711_OP_WRITE =>
          /\ opSteps \in 1..19
          /\ nju._state = (IF opSteps < 17 THEN NJU3711_SHIFTING
                           ELSE IF opSteps < 19 THEN NJU3711_LATCHING
                           ELSE NJU3711_IDLE)
          /\ (opSteps >= 17) = (nju._bitIndex < 0)
          /\ (nju.pinStrobe = LOW) = (opSteps = 18)
          /\ latchStep = (opSteps = 18)

\* A ShiftOnly(0xB6) has returned to Idle without a strobe pulse, behind a
\* Write(0x55) that was latched.
C26_Witness ==
    /\ nju._currentOperation = NJU3711_OP_SHIFT_ONLY
    /\ nju._state = NJU3711_IDLE
    /\ nju._shiftData = 182
    /\ opSteps = 17
    /\ latched = 85
    /\ nju.pinStrobe = HIGH

\* update() finds the step delay elapsed and the object in the given state.
StepsIn(state) == ev'.call = "update" /\ ev'.ret /\ nju._state = state

\* C27: a latch pulse and a hardware clear pulse each take exactly two
\* eligible steps: the first drives the line (strobe, clear) low and keeps
\* the state, the second drives it high and returns to Idle, a clear also
\* resetting the current value to 0; the second comes no sooner than the
\* step delay after the first.  The line is low between the two steps only.
C27_TwoPhasePulse ==
    /\ []((nju.pinStrobe = LOW) = (nju._state = NJU3711_LATCHING /\ latchStep))
    /\ []((nju.pinClear = LOW) = (nju._state = NJU3711_CLEARING /\ clearStep))
    /\ [](latchStep => nju._state = NJU3711_LATCHING)
    /\ [](clearStep => nju._state = NJU3711_CLEARING /\ nju._clearPin # Strapped)
    /\ [][/\ StepsIn(NJU3711_LATCHING) =>
               IF nju.pinStrobe = HIGH
               THEN /\ nju'.pinStrobe = LOW
                    /\ nju'._state = NJU3711_LATCHING
               ELSE /\ nju'.pinStrobe = HIGH
                    /\ nju'._state = NJU3711_IDLE
                    /\ wire.sinceChange >= nju._stepDelay
          /\ (StepsIn(NJU3711_CLEARING) /\ nju._clearPin # Strapped) =>
               IF nju.pinClear = HIGH
               THEN /\ nju'.pinClear = LOW
                    /\ nju'._state = NJU3711_CLEARING
                    /\ nju'._currentData = nju._currentData
               ELSE /\ nju'.pinClear = HIGH
                    /\ nju'._state = NJU3711_IDLE
                    /\ nju'._currentData = 0
                    /\ wire.sinceChange >= nju._stepDelay]_vars

\* A hardware Clear behind an operation that shifted 0xB6 has completed with
\* its second pulse step: three eligible steps with the dequeuing one,
\* current value 0.
C27_Witness ==
    /\ ev.call = "update"
    /\ nju._currentOperation = NJU3711_OP_CLEAR
    /\ nju._clearPin # Strapped
    /\ nju._state = NJU3711_IDLE
    /\ nju._shiftData = 182
    /\ opSteps = 3
    /\ nju.pinClear = HIGH
    /\ nju._currentData = 0

\* The operations of p with every Clear replaced by Write(0x00).
ClearsAsWrites(p) ==
    [i \in 1..Len(p) |-> IF p[i].operation = NJU3711_OP_CLEAR
                         THEN Entry(NJU3711_OP_WRITE, 0)
                         ELSE p[i]]

\* The object e after the operations of p have been submitted to it.
RECURSIVE SubmitAll(_, _)
SubmitAll(e, p) ==
    IF p = <<>> THEN e
    ELSE LET op == Head(p)
             e2 == CASE op.operation = NJU3711_OP_WRITE -> write(e, op.data)
                     [] op.operation = NJU3711_OP_SHIFT_ONLY -> shift(e, op.data)
                     [] op.operation = NJU3711_OP_LATCH_ONLY -> latch(e)
                     [] OTHER -> clear(e)
         IN  SubmitAll(e2, Tail(p))

\* The object after update() has been called, the step delay elapsed each
\* time, until it is idle with an empty queue (at most n calls).
RECURSIVE RunToRest(_, _, _, _)
RunToRest(e, ls, cs, n) ==
    IF n = 0 \/ ~isBusy(e) THEN e
    ELSE LET r == update(Due(e), ls, cs)
         IN  RunToRest(r.e, r.latchStep, r.clearStep, n - 1)

\* One dequeuing step and the steps of the longest operation, for as many
\* operations as the queue holds and one more under way.
RunSteps == (OperationSteps + 1) * (QueueCapacity + 1)

\* An object without a clear pin that ran begin() to rest, was then given
\* the operations of p and ran them to rest.
RunFromRest(p) ==
    LET rested == RunToRest(begin(Construct(Strapped)), FALSE, FALSE, RunSteps)
    IN  RunToRest(SubmitAll(rested, p), FALSE, FALSE, RunSteps)

HasClear(p) == \E i \in 1..Len(p) : p[i].operation = NJU3711_OP_CLEAR

\* C28: on an object without a clear pin (clearPin = 255) a Clear is
\* equivalent to Write(0x00) submitted at the same position: a sequence of
\* operations and the same sequence with every Clear replaced by Write(0x00)
\* shift and latch the same bytes and end with the same getCurrentData().
\* Stated for what both runs end with: once the operations submitted to an
\* object at rest have run to completion, getCurrentData() is that of the
\* run of the replaced sequence.
C28_ClearIsWriteZero ==
    (nju._clearPin = Strapped /\ Completed /\ HasClear(script))
        => getCurrentData(nju) = getCurrentData(RunFromRest(ClearsAsWrites(script)))

\* The bits that are 1 in the byte x.
OnesOf(x) == {i \in 0..7 : BitOf(x, i) = 1}

\* The byte the bit operation call makes of x at bit b.
Modified(call, x, b) ==
    CASE call = "setBit" -> BitsToByte(OnesOf(x) \cup {b})
      [] call = "clearBit" -> BitsToByte(OnesOf(x) \ {b})
      [] call = "toggleBit" ->
             BitsToByte((OnesOf(x) \ {b}) \cup ({b} \ OnesOf(x)))

\* C29: setBit(b), clearBit(b) and toggleBit(b) with b in 0..7 are
\* read-modify-write on the current value: each enqueues exactly one Write
\* whose payload is getCurrentData() at the call with bit b set, cleared or
\* inverted and every other bit unchanged, and returns the result of that
\* enqueue.  The call itself changes nothing else, the current value
\* included.
C29_ReadModifyWrite ==
    [][(ev'.call \in {"setBit", "clearBit", "toggleBit"} /\ ev'.arg \in 0..7) =>
         /\ ev'.ret = (getQueueSize(nju) < QueueCapacity)
         /\ IF ev'.ret
            THEN nju' = [nju EXCEPT
                           !._operationQueue[nju._queueTail] =
                               [operation |-> NJU3711_OP_WRITE,
                                data |-> Modified(ev'.call, getCurrentData(nju),
                                                  ev'.arg),
                                valid |-> TRUE],
                           !._queueTail = (nju._queueTail + 1) % QueueCapacity,
                           !._queueSize = nju._queueSize + 1]
            ELSE nju' = nju]_vars

\* toggleBit(7) on the current value 0xB6 queued Write(0x36).
C29_Witness ==
    /\ ev.call = "toggleBit"
    /\ ev.arg = 7
    /\ ev.ret
    /\ getCurrentData(nju) = 182
    /\ nju._operationQueue[(nju._queueTail + QueueCapacity - 1) % QueueCapacity].data = 54

\* C30: after startTestPattern(type, delay) has succeeded, and as long as
\* only update() is called, the engine stays in test-pattern mode and goes
\* on submitting a pattern write every pattern delay, each of which is
\* shifted and latched; only stopTestPattern() or a submission of the
\* application ends the mode.  Stated for the steps of update(): none of
\* them takes the object out of NJU3711_TEST_PATTERN.
C30_PatternKeepsRunning ==
    [][(ev'.call = "update" /\ nju._state = NJU3711_TEST_PATTERN)
          => nju'._state = NJU3711_TEST_PATTERN]_vars

\* update() drives the active select line inactive.
Deselects == ev'.call = "update" /\ ActiveSelectLines # {} /\ ActiveSelectLines' = {}

AsMultiplexerFindsIt == NJU3711_7Segment_update(Multi, latchStep, clearStep).d.nju

\* C32: the multiplexer's refresh write is never rejected.  Whenever the
\* WriteData phase calls write(), the engine is idle with an empty queue, so
\* the write is accepted and leaves exactly that one Write queued; an
\* update() that is not the WriteData phase queues nothing for the
\* multiplexer, and WriteData is followed by WaitData only, so one Write is
\* queued per cycle, whatever the application submits in between.
C32_RefreshWriteAccepted ==
    [][ev'.call = "update" =>
         IF WritesData
         THEN /\ AsMultiplexerFindsIt._state = NJU3711_IDLE
              /\ AsMultiplexerFindsIt._queueSize = 0
              /\ writeResult(AsMultiplexerFindsIt)
              /\ nju'._queueSize = 1
              /\ nju'._state = NJU3711_IDLE
              /\ nju'._operationQueue[nju'._queueHead]
                     = [operation |-> NJU3711_OP_WRITE,
                        data |-> refreshed'[1].pattern,
                        valid |-> TRUE]
              /\ refreshed'[1].slot = mux._nextDigit
         ELSE /\ nju' = AsMultiplexerFindsIt
              /\ refreshed' = refreshed
              /\ mux._mplexState = MPLEX_WRITE_DATA
                    => (mux'._mplexState = MPLEX_WRITE_DATA
                        /\ (isBusy(nju') \/ ~mux._multiplexEnabled))]_vars

\* The WriteData phase has queued its Write after a submission of the
\* application had been carried out.
C32_Witness ==
    /\ ev.call = "update"
    /\ mux._mplexState = MPLEX_WAIT_DATA
    /\ mux.sinceLastState = 0
    /\ nCalls = 1
    /\ nju._queueSize = 1
    /\ nju._state = NJU3711_IDLE
    /\ refreshed # <<>>
    /\ nju._operationQueue[nju._queueHead].data = refreshed[1].pattern

\* C33: refresh liveness.  With multiplexing enabled, no test pattern or
\* animation, no submission of the application, and update() called again
\* and again while time advances, the multiplex state machine cycles for
\* ever: it is in MPLEX_IDLE and in MPLEX_WRITE_DATA infinitely often, and
\* the select line of each of the three slots is active infinitely often.
C33_RefreshLiveness ==
    /\ []<>(mux._mplexState = MPLEX_IDLE)
    /\ []<>(mux._mplexState = MPLEX_WRITE_DATA)
    /\ \A k \in Digits : []<>(ActiveSelectLines = {k})

\* The third selection of a run: slot 0, after slots 1 and 2.
C33_Witness ==
    /\ ev.call = "update"
    /\ refreshes >= DigitCount
    /\ ActiveSelectLines = {0}
    /\ mux._mplexState = MPLEX_DISPLAY_DIGIT

\* C34: successive bit operations accumulate.  After setBit(a) and setBit(b)
\* with a # b have both been accepted, with or without update() steps
\* between the two calls, and the queue has then been drained, the current
\* value has bit a and bit b set and every other bit as it was before the
\* first of the two calls.
C34_BitsAccumulate ==
    (Len(asked.bits) = 2 /\ asked.bits[1] # asked.bits[2] /\ AtRest)
        => OnesOf(getCurrentData(nju))
               = OnesOf(asked.before) \cup {asked.bits[1], asked.bits[2]}

\* The same for an object with a clear pin whose two calls come after the
\* Clear of begin() is done, so that nothing but the two Writes is queued.
C34_AccumulateFromRest ==
    (nju._clearPin # Strapped /\ script # <<>>
        /\ script[1].operation = NJU3711_OP_WRITE)
        => C34_BitsAccumulate

\* C35: in every reachable state of an initialised engine, the clock line is
\* low whenever the state is not NJU3711_SHIFTING, the strobe line is high
\* and the bit index is in 0..7 whenever the state is NJU3711_SHIFTING, and
\* the queue indices are in 0..7 with tail = (head + size) mod 8.
C35_EngineInvariants ==
    /\ nju._state # NJU3711_SHIFTING => (nju.pinClock = LOW /\ ~nju._clockState)
    /\ nju._state = NJU3711_SHIFTING
           => (nju.pinStrobe = HIGH /\ nju._bitIndex \in 0..7)
    /\ nju._queueHead \in 0..(QueueCapacity - 1)
    /\ nju._queueTail \in 0..(QueueCapacity - 1)
    /\ nju._queueSize \in 0..QueueCapacity
    /\ nju._queueTail = (nju._queueHead + nju._queueSize) % QueueCapacity

\* The last bit of a byte on the data line with the clock high, while the
\* queue, filled past the end of the ring, holds seven operations from
\* index 2 round to index 0.
C35_Witness ==
    /\ nju._state = NJU3711_SHIFTING
    /\ nju.pinClock = HIGH
    /\ nju.pinStrobe = HIGH
    /\ nju._bitIndex = 0
    /\ nju._queueHead = 2
    /\ nju._queueSize = 7
    /\ nju._queueTail = 1
====
